---- MODULE Spec2Model ----
(***************************************************************************)
(* A model of the multi-layer cache of src/lib/advancedCaching.ts:         *)
(* AdvancedCache over a MemoryCacheLayer and a LocalStorageCacheLayer,     *)
(* with its transactions and their timeout timers.                         *)
(*                                                                         *)
(* One sequential caller issues the cache operations.  JavaScript runs a   *)
(* handler without interruption up to an await of real asynchronous work;  *)
(* the two adapters of the source only wrap synchronous calls, so the one  *)
(* place a handler is suspended with timers able to run is the digest of   *)
(* calculateChecksum (crypto.subtle.digest) in set().                      *)
(***************************************************************************)
EXTENDS Integers, Sequences, FiniteSets, TLC

\* ---------------------------------------------------------------- bounds
MaxTime == 2
MaxOps == 2
MaxKeys == 11

Keys == {"k1", "k2"}
\* "a" is a JSON-representable value, "date" a Date object (any value that
\* JSON.stringify does not render as itself), "iso" the string it becomes.
Values == {"a", "date"}
Null == "null"

\* Times are counted in ticks of the model's clock; the default TTL of the
\* configuration is scaled to it.
DefaultTTL == 1
NoTtl == -1
\* The timeout of a transaction, in ticks.
TxTimeout == 1
\* options.ttl: absent, or 0, which `options.ttl || defaultTTL` takes for absent.
TtlOptions == {NoTtl, 0}
\* The ids generateTransactionId gives, in the order it gives them.
TxIds == {1}

\* ------------------------------------------------------------ configuration
MemoryLayer == "memory"
StorageLayer == "localStorage"
IndexedDBLayer == "indexedDB"

\* A layer of CacheConfiguration.layers; a layer's name is its type here.
LayerCfg(n, p, e) == [name |-> n, priority |-> p, enabled |-> e]

DefaultLayers ==
  << LayerCfg(MemoryLayer, 1, TRUE),
     LayerCfg(StorageLayer, 2, TRUE),
     LayerCfg(IndexedDBLayer, 3, TRUE) >>

\* The configurations the model is run with besides the default one: the
\* storage medium in front of the memory, the layers declared out of priority
\* order, and a disabled layer.
LayerConfigurations ==
  { << LayerCfg(StorageLayer, 1, TRUE), LayerCfg(MemoryLayer, 2, TRUE) >>,
    << LayerCfg(StorageLayer, 2, TRUE), LayerCfg(MemoryLayer, 1, TRUE) >>,
    << LayerCfg(MemoryLayer, 1, TRUE), LayerCfg(StorageLayer, 2, FALSE) >> }

WritePolicies == {"write-through", "write-back", "write-around"}

\* ------------------------------------------------------------------ entries
\* A CacheEntry without its key: its value, and of its metadata the
\* expiresAt and the version, which decide what the cache serves.
NoEntry == [value |-> "absent", expiresAt |-> 0, version |-> 0]

EmptyLayer == [k \in Keys |-> NoEntry]

VARIABLES
  config,            \* this.config: layers and writePolicy
  hasLocalStorage,   \* typeof localStorage !== "undefined"
  initIdx,           \* initializeLayers: layers of the configuration handled
  layers,            \* this.layers: names of the registered adapters, in insertion order
  store,             \* the media: MemoryCacheLayer.cache and localStorage under "cache:"
  now,               \* Date.now()
  writeBack,         \* the entries scheduleWriteBack has yet to propagate
  transactions,      \* this.transactions: id -> recorded operations
  timers,            \* the armed timeout timers: id -> the time they are due
  nextTxId,          \* the next id generateTransactionId gives
  txStatus,          \* how each transaction ended, as its callers were told
  call,              \* the caller's operation in flight, if it is suspended
  last,              \* the last handler that ran to its end, and its outcome
  metrics,           \* this.metrics
  snapshot,          \* the object a getMetrics() call returned, as its holder sees it
  eventListeners,    \* this.eventListeners: event type -> listeners, in the order added
  delivered,         \* the listeners the last emitEvent called, in order
  cleanupTimer,      \* this.cleanupTimer is armed
  syncTimer,         \* this.syncTimer is armed
  teardown,          \* what destroy() has done, in the order it did it
  client,            \* the ChatApiClient and its request in flight
  search,            \* useMessageSearch: the sessions, the filters and the results
  history,           \* useMessagePersistence: the sessions and the last export
  chat,              \* useMessagePersistence: its state, its closures, its store
  limiter            \* ChatApiClient: its rate limit queue and its callers

\* The cache, its sinks and background tasks, and the parts of the program
\* beside the cache.
cache ==
  << config, hasLocalStorage, initIdx, layers, store, now, writeBack,
     transactions, timers, nextTxId, txStatus, call, last >>
services ==
  << metrics, snapshot, eventListeners, delivered, cleanupTimer, syncTimer,
     teardown >>
apps == << client, search, history, chat, limiter >>

vars == << cache, services, apps >>

\* ------------------------------------------------------------- conversions
\* JSON.stringify of a value: a Date is written as its ISO string.
JSONstringify(v) ==
  CASE v = "a" -> "s:a"
    [] v = "date" -> "s:iso"
    [] v = "iso" -> "s:iso"
    [] OTHER -> "s:null"

\* JSON.parse without a reviver: a string stays a string.
JSONparse(s) ==
  CASE s = "s:a" -> "a"
    [] s = "s:iso" -> "iso"
    [] OTHER -> Null

\* ------------------------------------------------------------------ ordering
RECURSIVE InsertLayer(_, _)
InsertLayer(s, x) ==
  IF s = << >> THEN << x >>
  ELSE IF Head(s).priority <= x.priority
       THEN << Head(s) >> \o InsertLayer(Tail(s), x)
       ELSE << x >> \o s

RECURSIVE SortLayers(_)
SortLayers(s) ==
  IF s = << >> THEN << >>
  ELSE InsertLayer(SortLayers(SubSeq(s, 1, Len(s) - 1)), s[Len(s)])

SelectEnabled(s) == SelectSeq(s, LAMBDA l : l.enabled)

\* The names of the enabled layers of the configuration, by ascending priority.
getLayerPriority ==
  LET sorted == SortLayers(SelectEnabled(config.layers))
  IN  [i \in 1..Len(sorted) |-> sorted[i].name]

Range(s) == { s[i] : i \in 1..Len(s) }

CfgOf(name) ==
  CHOOSE l \in Range(config.layers) : l.name = name

\* layer?.isEnabled() of the adapter registered under a name.
isEnabled(name) ==
  /\ name \in Range(layers)
  /\ CfgOf(name).enabled
  /\ (name = StorageLayer => hasLocalStorage)

\* An isExpired that lets every entry live on.
neverExpired(entry) == FALSE

\* Date.now() > entry.metadata.expiresAt
isExpired(entry) == now > entry.expiresAt

\* ----------------------------------------------------------------- adapters
\* The outcome of localStorage.setItem for one adapter set: the write is
\* taken, or rejected once and taken after cleanup(), or rejected twice.
QuotaOutcomes == {"ok", "retry", "full"}

MemoryCacheLayer_get(st, k) == st[MemoryLayer][k]

MemoryCacheLayer_set(st, k, entry) ==
  [store |-> [st EXCEPT ![MemoryLayer][k] = entry], ok |-> TRUE]

\* JSON.parse of the stored item; the timestamps are numbers and
\* new Date(n).getTime() gives an integer number of milliseconds back.
LocalStorageCacheLayer_get(st, k) ==
  LET item == st[StorageLayer][k]
  IN  IF item = NoEntry THEN NoEntry
      ELSE [item EXCEPT !.value = JSONparse(@)]

\* Purges the items whose expiresAt lies before now.
LocalStorageCacheLayer_cleanup(st) ==
  [st EXCEPT ![StorageLayer] =
     [k \in Keys |-> IF @[k] # NoEntry /\ now > @[k].expiresAt
                     THEN NoEntry ELSE @[k]]]

MemoryCacheLayer_cleanup(st) ==
  [st EXCEPT ![MemoryLayer] =
     [k \in Keys |-> IF @[k] # NoEntry /\ now > @[k].expiresAt
                     THEN NoEntry ELSE @[k]]]

\* setItem(JSON.stringify(entry)); on an exception cleanup() and one more
\* setItem, whose exception goes to the caller.
LocalStorageCacheLayer_set(st, k, entry, q) ==
  LET item == [entry EXCEPT !.value = JSONstringify(@)]
      cleaned == LocalStorageCacheLayer_cleanup(st)
  IN  CASE q = "ok" ->
             [store |-> [st EXCEPT ![StorageLayer][k] = item], ok |-> TRUE]
        [] q = "retry" ->
             [store |-> [cleaned EXCEPT ![StorageLayer][k] = item], ok |-> TRUE]
        [] OTHER -> [store |-> cleaned, ok |-> FALSE]

\* The answers of the storage medium to the successive setItem calls of one
\* adapter set: TRUE where it takes the write.
Acceptances == [1..3 -> BOOLEAN]

\* A set that cleans up and writes again after its second rejection too.
setRetryingAgain(st, k, entry, accepts) ==
  LET item == [entry EXCEPT !.value = JSONstringify(@)]
      cleaned == LocalStorageCacheLayer_cleanup(st)
      first == CHOOSE i \in 1..4 : i = 4 \/ accepts[i]
  IN  IF first = 1
      THEN [store |-> [st EXCEPT ![StorageLayer][k] = item], ok |-> TRUE,
            attempts |-> 1, cleanups |-> 0]
      ELSE IF first \in 2..3
      THEN [store |-> [cleaned EXCEPT ![StorageLayer][k] = item], ok |-> TRUE,
            attempts |-> first, cleanups |-> first - 1]
      ELSE [store |-> cleaned, ok |-> FALSE, attempts |-> 3, cleanups |-> 2]

\* LocalStorageCacheLayer.set with the calls it makes counted: setItem in the
\* try, and in the catch cleanup() and setItem again, outside any try.
setCounted(st, k, entry, accepts) ==
  LET item == [entry EXCEPT !.value = JSONstringify(@)]
      cleaned == LocalStorageCacheLayer_cleanup(st)
  IN  IF accepts[1]
      THEN [store |-> [st EXCEPT ![StorageLayer][k] = item], ok |-> TRUE,
            attempts |-> 1, cleanups |-> 0]
      ELSE IF accepts[2]
      THEN [store |-> [cleaned EXCEPT ![StorageLayer][k] = item], ok |-> TRUE,
            attempts |-> 2, cleanups |-> 1]
      ELSE [store |-> cleaned, ok |-> FALSE, attempts |-> 2, cleanups |-> 1]

\* The outcome of the adapter set that these answers of the medium make.
QuotaOf(accepts) ==
  IF accepts[1] THEN "ok" ELSE IF accepts[2] THEN "retry" ELSE "full"

LayerGet(st, name, k) ==
  IF name = MemoryLayer THEN MemoryCacheLayer_get(st, k)
  ELSE LocalStorageCacheLayer_get(st, k)

LayerSet(st, name, k, entry, q) ==
  IF name = MemoryLayer THEN MemoryCacheLayer_set(st, k, entry)
  ELSE LocalStorageCacheLayer_set(st, k, entry, q)

\* Map.delete: whether the key was there, and the map without it.
MemoryCacheLayer_delete(st, k) ==
  [store |-> [st EXCEPT ![MemoryLayer][k] = NoEntry],
   existed |-> st[MemoryLayer][k] # NoEntry]

\* getItem(...) !== null, then removeItem.
LocalStorageCacheLayer_delete(st, k) ==
  [store |-> [st EXCEPT ![StorageLayer][k] = NoEntry],
   existed |-> st[StorageLayer][k] # NoEntry]

LayerDelete(st, name, k) ==
  IF name = MemoryLayer THEN MemoryCacheLayer_delete(st, k)
  ELSE LocalStorageCacheLayer_delete(st, k)

\* new RegExp(pattern).test(key), for the patterns of the model: a key's name
\* matches that key only.
RegExpTest(pattern, k) == pattern = k

NoPattern == "*"

\* A clear that takes the missing pattern for a pattern, and so clears
\* nothing when it is called without one.
clearMatchingOnly(st, pattern) ==
  [st EXCEPT ![MemoryLayer] =
     [k \in Keys |-> IF RegExpTest(pattern, k) THEN NoEntry ELSE @[k]]]

\* clear(pattern): cache.clear(), or the keys the pattern matches.
MemoryCacheLayer_clear(st, pattern) ==
  [st EXCEPT ![MemoryLayer] =
     [k \in Keys |-> IF pattern = NoPattern \/ RegExpTest(pattern, k)
                     THEN NoEntry ELSE @[k]]]

\* clear(pattern): the keys under the prefix, all or those the pattern matches.
LocalStorageCacheLayer_clear(st, pattern) ==
  [st EXCEPT ![StorageLayer] =
     [k \in Keys |-> IF pattern = NoPattern \/ RegExpTest(pattern, k)
                     THEN NoEntry ELSE @[k]]]

LayerClear(st, name, pattern) ==
  IF name = MemoryLayer THEN MemoryCacheLayer_clear(st, pattern)
  ELSE LocalStorageCacheLayer_clear(st, pattern)

LayerCleanup(st, name) ==
  IF name = MemoryLayer THEN MemoryCacheLayer_cleanup(st)
  ELSE LocalStorageCacheLayer_cleanup(st)

\* getKeyCount()
getKeyCount(st, name) == Cardinality({ k \in Keys : st[name][k] # NoEntry })

\* ------------------------------------------------------------- orchestrator
\* The enabled adapters in lookup order.
EnabledInPriority == SelectSeq(getLayerPriority, isEnabled)

\* The enabled adapters in the order of this.layers.values().
EnabledInInsertion == SelectSeq(layers, isEnabled)

IndexOf(s, x) == CHOOSE i \in 1..Len(s) : s[i] = x

\* get's scan: the index, in getLayerPriority, of the first enabled layer
\* that holds an entry for k that is not expired; 0 when there is none.
RECURSIVE FirstLive(_, _, _)
FirstLive(st, k, i) ==
  IF i > Len(getLayerPriority) THEN 0
  ELSE LET name == getLayerPriority[i]
       IN  IF /\ isEnabled(name)
              /\ LayerGet(st, name, k) # NoEntry
              /\ ~isExpired(LayerGet(st, name, k))
           THEN i
           ELSE FirstLive(st, k, i + 1)

\* promoteEntry: layer.set(entry) on the enabled layers in front of the
\* serving one, in order; an adapter's exception ends the loop.
RECURSIVE PromoteFrom(_, _, _, _, _, _)
PromoteFrom(st, i, currentIndex, k, entry, q) ==
  IF i >= currentIndex THEN [store |-> st, ok |-> TRUE]
  ELSE LET name == getLayerPriority[i]
       IN  IF ~isEnabled(name)
           THEN PromoteFrom(st, i + 1, currentIndex, k, entry, q)
           ELSE LET w == LayerSet(st, name, k, entry, q)
                IN  IF w.ok
                    THEN PromoteFrom(w.store, i + 1, currentIndex, k, entry, q)
                    ELSE [store |-> w.store, ok |-> FALSE]

promoteEntry(st, k, entry, currentLayer, q) ==
  PromoteFrom(st, 1, IndexOf(getLayerPriority, currentLayer), k, entry, q)

\* The outcomes setItem can have in a handler that writes the named layers:
\* with no localStorage adapter among them there is nothing to reject.
OutcomesFor(names) ==
  IF StorageLayer \in Range(names) THEN QuotaOutcomes ELSE {"ok"}

\* The layers promoteEntry writes for a get of k.
PromotionTargets(st, k) ==
  LET i == FirstLive(st, k, 1)
  IN  IF i = 0 THEN << >>
      ELSE SelectSeq(SubSeq(getLayerPriority, 1, i - 1), isEnabled)

\* The result of a handler: the media afterwards, what it returned, the layer
\* that served a hit, whether it threw, and the events it emitted.
Outcome(st, result, layer, threw, events) ==
  [store |-> st, result |-> result, layer |-> layer,
   threw |-> threw, events |-> events]

NoLayer == "none"

\* AdvancedCache.get
get(st, k, q) ==
  LET i == FirstLive(st, k, 1)
  IN  IF i = 0 THEN Outcome(st, Null, NoLayer, FALSE, {"miss"})
      ELSE
        LET name == getLayerPriority[i]
            found == LayerGet(st, name, k)
            \* lastAccessed and accessCount are updated on the object the
            \* adapter returned; value, expiresAt and version stay.
            entry == found
            p == promoteEntry(st, k, entry, name, q)
        IN  IF p.ok
            THEN Outcome(p.store, entry.value, name, FALSE, {"hit"})
            ELSE Outcome(p.store, Null, NoLayer, TRUE, {})

\* The metadata of the entry set() constructs: the time stamps, the count of
\* accesses and the version.  options.ttl || defaultTTL takes the default for
\* a ttl that is absent or 0.
EntryMetadata(ttl) ==
  [createdAt |-> now,
   updatedAt |-> now,
   expiresAt |-> now + (IF ttl = NoTtl \/ ttl = 0 THEN DefaultTTL ELSE ttl),
   accessCount |-> 0,
   version |-> 1]

\* No entry was constructed.
NoMetadata ==
  [createdAt |-> 0, updatedAt |-> 0, expiresAt |-> 0, accessCount |-> 0,
   version |-> 0]

\* The entry set() constructs.
NewEntry(v, ttl) ==
  [value |-> v,
   expiresAt |-> EntryMetadata(ttl).expiresAt,
   version |-> EntryMetadata(ttl).version]

\* layer.set(entry) on each of the named layers in turn; the first failure
\* aborts and leaves the layers written so far as they are.
RECURSIVE WriteLayers(_, _, _, _, _)
WriteLayers(st, names, k, entry, q) ==
  IF names = << >> THEN [store |-> st, ok |-> TRUE]
  ELSE LET w == LayerSet(st, Head(names), k, entry, q)
       IN  IF w.ok THEN WriteLayers(w.store, Tail(names), k, entry, q)
           ELSE [store |-> w.store, ok |-> FALSE]

\* write-through: every enabled layer.
writeToAllLayers(st, k, entry, q) ==
  WriteLayers(st, EnabledInPriority, k, entry, q)

\* write-back: the highest-priority enabled layer.
writeToTopLayer(st, k, entry, q) ==
  IF EnabledInPriority = << >> THEN [store |-> st, ok |-> TRUE]
  ELSE WriteLayers(st, << Head(EnabledInPriority) >>, k, entry, q)

\* write-around: every enabled layer except the highest-priority one.
writeToStorageLayers(st, k, entry, q) ==
  IF EnabledInPriority = << >> THEN [store |-> st, ok |-> TRUE]
  ELSE WriteLayers(st, Tail(EnabledInPriority), k, entry, q)

\* The layers set() writes under the configured policy.
PolicyTargets ==
  CASE config.writePolicy = "write-through" -> EnabledInPriority
    [] config.writePolicy = "write-back" ->
         IF EnabledInPriority = << >> THEN << >>
         ELSE << Head(EnabledInPriority) >>
    [] OTHER ->
         IF EnabledInPriority = << >> THEN << >> ELSE Tail(EnabledInPriority)

\* The write-policy switch of set().
applyWritePolicy(st, k, entry, q) ==
  CASE config.writePolicy = "write-through" -> writeToAllLayers(st, k, entry, q)
    [] config.writePolicy = "write-back" -> writeToTopLayer(st, k, entry, q)
    [] OTHER -> writeToStorageLayers(st, k, entry, q)

\* AdvancedCache.set from the write policy on, for the entry constructed.
setEntry(st, k, entry, q) ==
  LET w == applyWritePolicy(st, k, entry, q)
  IN  IF w.ok THEN Outcome(w.store, Null, NoLayer, FALSE, {"set"})
      ELSE Outcome(w.store, Null, NoLayer, TRUE, {})

\* AdvancedCache.delete
RECURSIVE DeleteLayers(_, _, _, _)
DeleteLayers(st, names, k, deleted) ==
  IF names = << >> THEN [store |-> st, deleted |-> deleted]
  ELSE LET d == LayerDelete(st, Head(names), k)
       IN  DeleteLayers(d.store, Tail(names), k, deleted \/ d.existed)

\* A delete that stops at the first layer.
deleteFirstLayerOnly(st, k) ==
  LET first == IF EnabledInInsertion = << >> THEN << >>
               ELSE << Head(EnabledInInsertion) >>
      d == DeleteLayers(st, first, k, FALSE)
  IN  Outcome(d.store, IF d.deleted THEN "true" ELSE "false", NoLayer, FALSE,
              {"delete"})

delete(st, k) ==
  LET d == DeleteLayers(st, EnabledInInsertion, k, FALSE)
  IN  Outcome(d.store, IF d.deleted THEN "true" ELSE "false", NoLayer, FALSE,
              {"delete"})

\* AdvancedCache.clear
RECURSIVE ClearLayers(_, _, _)
ClearLayers(st, names, pattern) ==
  IF names = << >> THEN st
  ELSE ClearLayers(LayerClear(st, Head(names), pattern), Tail(names), pattern)

clear(st, pattern) ==
  Outcome(ClearLayers(st, EnabledInInsertion, pattern), Null, NoLayer, FALSE,
          {"clear"})

\* AdvancedCache.cleanup: each enabled layer's cleanup().  The call of
\* cleanupExpiredTransactions that follows is caught by cleanup's own try.
RECURSIVE CleanupLayers(_, _)
CleanupLayers(st, names) ==
  IF names = << >> THEN st
  ELSE CleanupLayers(LayerCleanup(st, Head(names)), Tail(names))

cleanup(st) == CleanupLayers(st, EnabledInInsertion)

\* ------------------------------------------------------------- transactions
\* A recorded CacheOperation.  "expire" is a type executeOperation has no case for.
SetOp(k, v, c) == [type |-> "set", key |-> k, value |-> v, checksum |-> c]
DeleteOp(k) == [type |-> "delete", key |-> k, value |-> Null, checksum |-> FALSE]
ExpireOp(k) == [type |-> "expire", key |-> k, value |-> Null, checksum |-> FALSE]

\* The operations the caller records: a set, a set that asks for a checksum,
\* a delete, and an operation that cannot be replayed.
Operations ==
  { SetOp("k1", "a", FALSE), SetOp("k2", "a", TRUE), DeleteOp("k1"),
    ExpireOp("k1") }

\* reverseOperation: a set is reversed by delete(key), anything else by nothing.
reverseOperation(st, op) ==
  IF op.type = "set" THEN delete(st, op.key).store ELSE st

\* The loop of rollbackTransaction, from operation i down to the first.
RECURSIVE ReverseFrom(_, _, _)
ReverseFrom(st, ops, i) ==
  IF i = 0 THEN st
  ELSE ReverseFrom(reverseOperation(st, ops[i]), ops, i - 1)

\* rollbackTransaction: nothing for an id the registry does not hold.
rollbackTransaction(st, id) ==
  IF id \in DOMAIN transactions
  THEN ReverseFrom(st, transactions[id], Len(transactions[id]))
  ELSE st

\* delete(key) when the storage medium throws on the removal: the layers in
\* front of the localStorage adapter have deleted the key, and delete rethrows.
deleteRejected(st, k) ==
  LET names == EnabledInInsertion
      reached == IF StorageLayer \in Range(names)
                 THEN SubSeq(names, 1, IndexOf(names, StorageLayer) - 1)
                 ELSE names
  IN  DeleteLayers(st, reached, k, FALSE).store

\* A loop of rollbackTransaction that a failed reversal ends.
RECURSIVE ReverseUntilFailure(_, _, _, _, _)
ReverseUntilFailure(st, ops, i, rejected, order) ==
  IF i = 0 THEN [store |-> st, order |-> order]
  ELSE IF i \in rejected /\ ops[i].type = "set"
       THEN [store |-> deleteRejected(st, ops[i].key), order |-> Append(order, i)]
       ELSE ReverseUntilFailure(reverseOperation(st, ops[i]), ops, i - 1,
                                rejected, Append(order, i))

\* The loop of rollbackTransaction with its try and catch, from operation i
\* down to the first: the reversals of the operations in rejected throw, and
\* the loop goes on.  order lists the operations as they are reversed.
RECURSIVE ReverseEach(_, _, _, _, _)
ReverseEach(st, ops, i, rejected, order) ==
  IF i = 0 THEN [store |-> st, order |-> order]
  ELSE ReverseEach(IF i \in rejected /\ ops[i].type = "set"
                   THEN deleteRejected(st, ops[i].key)
                   ELSE reverseOperation(st, ops[i]),
                   ops, i - 1, rejected, Append(order, i))

Without(f, id) == [x \in DOMAIN f \ {id} |-> f[x]]
With(f, id, v) == [x \in DOMAIN f \cup {id} |-> IF x = id THEN v ELSE f[x]]

\* ------------------------------------------------------------------ metrics
OperationKinds == {"get", "set", "delete", "clear", "sync"}

\* The minTime of an operation that has not run yet; every duration the
\* model measures lies below it.
Infinity == 99

\* performance.now() - startTime, in ticks of a clock of its own.
Durations == {0, 1}

Min(a, b) == IF a < b THEN a ELSE b
Max(a, b) == IF a > b THEN a ELSE b

RECURSIVE GCD(_, _)
GCD(a, b) == IF b = 0 THEN a ELSE GCD(b, a % b)

\* The quotient n / d of two counters, as the fraction in lowest terms; 0
\* where the code does not divide.
Quotient(n, d) ==
  IF d = 0 \/ n = 0 THEN << 0, 1 >> ELSE << n \div GCD(n, d), d \div GCD(n, d) >>

NoStats ==
  [count |-> 0, totalTime |-> 0, averageTime |-> << 0, 1 >>,
   minTime |-> Infinity, maxTime |-> 0, errors |-> 0]

initializeMetrics ==
  [hits |-> 0, misses |-> 0, hitRate |-> << 0, 1 >>,
   operations |-> [o \in OperationKinds |-> NoStats]]

updateHitRate(m) ==
  [m EXCEPT !.hitRate = IF m.hits + m.misses > 0
                        THEN Quotient(m.hits, m.hits + m.misses)
                        ELSE << 0, 1 >>]

updateOperationStats(m, operation, time, isError) ==
  LET stats == m.operations[operation]
  IN  IF isError
      THEN [m EXCEPT !.operations[operation].errors = @ + 1]
      ELSE [m EXCEPT !.operations[operation] =
              [count |-> stats.count + 1,
               totalTime |-> stats.totalTime + time,
               averageTime |-> Quotient(stats.totalTime + time, stats.count + 1),
               minTime |-> Min(stats.minTime, time),
               maxTime |-> Max(stats.maxTime, time),
               errors |-> stats.errors]]

recordHit(m, time) ==
  updateOperationStats(updateHitRate([m EXCEPT !.hits = @ + 1]), "get", time, FALSE)

recordMiss(m, time) ==
  updateOperationStats(updateHitRate([m EXCEPT !.misses = @ + 1]), "get", time, FALSE)

recordSet(m, time) == updateOperationStats(m, "set", time, FALSE)
recordDelete(m, time) == updateOperationStats(m, "delete", time, FALSE)
recordClear(m, time) == updateOperationStats(m, "clear", time, FALSE)
recordSync(m, time) == updateOperationStats(m, "sync", time, FALSE)
recordError(m, operation) == updateOperationStats(m, operation, 0, TRUE)

\* What a snapshot holds of the metrics.
Fields(m) ==
  [hits |-> m.hits, misses |-> m.misses, hitRate |-> m.hitRate,
   operations |-> m.operations]

\* No getMetrics() call has been made.
NoSnapshot ==
  [taken |-> FALSE, shared |-> FALSE, seen |-> Fields(initializeMetrics),
   returned |-> Fields(initializeMetrics)]

\* getMetrics(): { ...this.metrics }, a new object with the counters copied
\* and with the operations object of this.metrics itself.  `seen` is what the
\* holder reads from it, `returned` what it read when the call returned.
getMetrics(m) ==
  [taken |-> TRUE, shared |-> TRUE, seen |-> Fields(m), returned |-> Fields(m)]

\* The snapshot after this.metrics has become m: the operations object it
\* shares with this.metrics is updated in place.
Aliased(s, m) ==
  IF s.shared THEN [s EXCEPT !.seen.operations = m.operations] ELSE s

\* resetMetrics(): this.metrics is a new object; the old operations object
\* stays with the snapshot that holds it.
resetMetrics(s) == [s EXCEPT !.shared = FALSE]

\* ------------------------------------------------------------------- events
EventTypes == {"hit", "miss", "set", "delete", "clear", "sync"}

\* The listeners a caller registers: one that returns and one that throws.
Listeners == {"quiet", "thrower"}
Throws(listener) == listener = "thrower"

NoListeners == [e \in EventTypes |-> << >>]

\* on(event, listener): Set.add, which keeps the order of insertion.
on(ls, event, listener) ==
  IF listener \in Range(ls[event]) THEN ls
  ELSE [ls EXCEPT ![event] = Append(@, listener)]

\* off(event, listener)
off(ls, event, listener) ==
  [ls EXCEPT ![event] = SelectSeq(@, LAMBDA l : l # listener)]

\* listeners.forEach without the try: the first exception ends the loop and
\* leaves emitEvent.
RECURSIVE forEachUncaught(_, _)
forEachUncaught(ls, called) ==
  IF ls = << >> THEN [called |-> called, threw |-> FALSE]
  ELSE IF Throws(Head(ls))
       THEN [called |-> Append(called, Head(ls)), threw |-> TRUE]
       ELSE forEachUncaught(Tail(ls), Append(called, Head(ls)))

emitEventUncaught(type) == forEachUncaught(eventListeners[type], << >>)

\* listeners.forEach: each listener is called inside a try of its own, whose
\* catch logs the exception.
RECURSIVE forEachListener(_, _)
forEachListener(ls, called) ==
  IF ls = << >> THEN [called |-> called, threw |-> FALSE]
  ELSE forEachListener(Tail(ls), Append(called, Head(ls)))

emitEvent(type) == forEachListener(eventListeners[type], << >>)

\* ------------------------------------------------------------ ChatApiClient
MaxRetries == 2
MaxErrors == 6

\* The consecutiveErrors from which a network error is no longer retried.
ErrorLimit == 5

\* How an attempt's fetch ends: a response that is ok, one whose body is not
\* JSON, a 429, a 5xx, another status, a network error, or the abort of the
\* timeout.
FetchOutcomes == {"ok", "badJson", "429", "5xx", "4xx", "network", "timeout"}

\* new ChatApiClient(config), for the retryAttempts of the configuration.
ChatApiClient(retryAttempts) ==
  [retryAttempts |-> retryAttempts, phase |-> "idle", attempt |-> 0,
   fetches |-> 0, consecutiveErrors |-> 0, settled |-> "none"]

\* A retry condition that allows one attempt more.
retryOnceMore(c) == c.attempt <= c.retryAttempts + 1

\* attempt <= this.config.retryAttempts
withinRetryAttempts(c) == c.attempt <= c.retryAttempts

\* await this.delay(delayTime); return this.makeRequest(endpoint, options,
\* attempt + 1): the promise of the next attempt settles the call, and its
\* rejection does not pass through the catch of this one.
Retrying(c) == [c EXCEPT !.phase = "delay"]

\* The call rejects: every throw inside the try passes the catch, which
\* counts it.
Rejecting(c) ==
  [c EXCEPT !.phase = "idle", !.settled = "rejected",
            !.consecutiveErrors = @ + 1]

\* makeRequest from the settling of its fetch on.
afterFetch(c, outcome) ==
  CASE outcome = "ok" ->
         [c EXCEPT !.phase = "idle", !.settled = "resolved",
                   !.consecutiveErrors = 0]
    [] outcome \in {"429", "5xx"} ->
         IF withinRetryAttempts(c) THEN Retrying(c) ELSE Rejecting(c)
    [] outcome \in {"4xx", "timeout"} -> Rejecting(c)
    [] OTHER ->
         IF withinRetryAttempts(c) /\ c.consecutiveErrors + 1 < ErrorLimit
         THEN Retrying([c EXCEPT !.consecutiveErrors = @ + 1])
         ELSE Rejecting(c)

\* ------------------------------------------------------------------- search
\* A string is the sequence of its characters.  The characters of the model:
\* lower-case and upper-case letters, a digit, the underscore, the space,
\* a punctuation mark and a letter outside ASCII.
LowerCase == {"a", "b", "c", "d", "e", "f", "z"}
UpperCase == {"A", "B", "C"}
Digits == {"7"}
WhiteSpace == {" "}

\* String.prototype.toLowerCase, character by character.
LowerOf(c) ==
  CASE c = "A" -> "a" [] c = "B" -> "b" [] c = "C" -> "c" [] OTHER -> c

toLowerCase(text) == [i \in 1..Len(text) |-> LowerOf(text[i])]

\* \w: a letter of ASCII, a digit or the underscore.
WordCharacter(c) == c \in LowerCase \cup UpperCase \cup Digits \cup {"_"}

\* A \w that leaves the underscore out.
AlphanumericCharacter(c) == c \in LowerCase \cup UpperCase \cup Digits

\* replace(/[^\w\s]/g, " ")
replaceNonWord(text) ==
  [i \in 1..Len(text) |->
     IF WordCharacter(text[i]) \/ text[i] \in WhiteSpace THEN text[i] ELSE " "]

\* Where the pieces of split(/\s+/) start: at a character that is not white
\* space and follows white space or nothing.
PieceStarts(text) ==
  { i \in 1..Len(text) :
      /\ text[i] \notin WhiteSpace
      /\ i = 1 \/ text[i - 1] \in WhiteSpace }

\* The piece that starts at i ends before the next white space.
PieceFrom(text, i) ==
  LET end == CHOOSE j \in i..Len(text) :
               /\ \A k \in i..j : text[k] \notin WhiteSpace
               /\ j = Len(text) \/ text[j + 1] \in WhiteSpace
  IN  SubSeq(text, i, end)

\* split(/\s+/): the pieces between the runs of white space, with an empty
\* piece where the text starts or ends with white space.
split(text) ==
  LET starts == PieceStarts(text)
      nth(k) == CHOOSE i \in starts :
                  Cardinality({ j \in starts : j < i }) = k - 1
  IN  (IF text = << >> \/ text[1] \in WhiteSpace THEN << << >> >> ELSE << >>)
        \o [k \in 1..Cardinality(starts) |-> PieceFrom(text, nth(k))]
        \o (IF text # << >> /\ text[Len(text)] \in WhiteSpace
            THEN << << >> >> ELSE << >>)

\* tokenizeText(text)
tokenizeText(text) ==
  SelectSeq(split(replaceNonWord(toLowerCase(text))),
            LAMBDA token : Len(token) > 2)

\* String.prototype.includes
includes(text, part) ==
  \E i \in 0..(Len(text) - Len(part)) :
    \A j \in 1..Len(part) : text[i + j] = part[j]

\* String.prototype.trim() leaves nothing.
Blank(text) == \A i \in 1..Len(text) : text[i] \in WhiteSpace

\* n copies of a string.
RECURSIVE Repeat(_, _)
Repeat(text, n) == IF n = 0 THEN << >> ELSE text \o Repeat(text, n - 1)

\* A ChatMessageType: its text, its sender and its timestamp in days.
ChatMessage(id, message, isAI, timestamp) ==
  [id |-> id, message |-> message, isAI |-> isAI, timestamp |-> timestamp]

\* A ChatSession.
ChatSession(id, createdAt, updatedAt, messages) ==
  [id |-> id, createdAt |-> createdAt, updatedAt |-> updatedAt,
   messages |-> messages]

\* Date.now() at the time of a search, in days.
Today == 10

\* A filter that is not given.
NoRange == [start |-> -1, end |-> -1, min |-> -1, max |-> -1]

\* SearchFilters
SearchFilters(query, dateRange, senderType, messageLength, sortBy, sortOrder) ==
  [query |-> query, dateRange |-> dateRange, senderType |-> senderType,
   messageLength |-> messageLength, sortBy |-> sortBy, sortOrder |-> sortOrder]

\* The message passes the sender and the length filter.
PassesFilters(filters, message) ==
  /\ ~(filters.senderType = "user" /\ message.isAI)
  /\ ~(filters.senderType = "ai" /\ ~message.isAI)
  /\ \/ filters.messageLength = NoRange
     \/ /\ Len(message.message) >= filters.messageLength.min
        /\ Len(message.message) <= filters.messageLength.max

\* The session passes the date filter.
InDateRange(filters, session) ==
  \/ filters.dateRange = NoRange
  \/ /\ session.createdAt >= filters.dateRange.start
     /\ session.createdAt <= filters.dateRange.end

\* A fuzzy match that does not look at the lengths.
anyContainment(messageToken, queryToken) ==
  \/ messageToken = queryToken
  \/ includes(messageToken, queryToken)
  \/ includes(queryToken, messageToken)

\* The test of a message token against a query token: equal, or one
\* includes the other and their lengths differ by two at most.
tokenMatches(messageToken, queryToken) ==
  \/ messageToken = queryToken
  \/ /\ includes(messageToken, queryToken) \/ includes(queryToken, messageToken)
     /\ Len(messageToken) - Len(queryToken) <= 2
     /\ Len(queryToken) - Len(messageToken) <= 2

\* The two nested forEach: the query token once for each message token it
\* matches.
RECURSIVE TokenMatches(_, _)
TokenMatches(queryTokens, messageTokens) ==
  IF queryTokens = << >> THEN << >>
  ELSE LET queryToken == Head(queryTokens)
           hits == SelectSeq(messageTokens,
                             LAMBDA token : tokenMatches(token, queryToken))
       IN  [i \in 1..Len(hits) |-> queryToken]
             \o TokenMatches(Tail(queryTokens), messageTokens)

\* matchedTerms of a message: the token matches, then the raw query if the
\* message includes it, both in lower case.
matchedTerms(message, query) ==
  TokenMatches(tokenizeText(query), tokenizeText(message.message))
    \o (IF includes(toLowerCase(message.message), toLowerCase(query))
        THEN << query >> ELSE << >>)

\* [...new Set(matchedTerms)]: each term once, in the order of first insertion.
RECURSIVE Unique(_, _)
Unique(terms, seen) ==
  IF terms = << >> THEN << >>
  ELSE IF Head(terms) \in seen THEN Unique(Tail(terms), seen)
       ELSE << Head(terms) >> \o Unique(Tail(terms), seen \cup {Head(terms)})

\* The score before its boosts: 10 for each query token the message
\* includes, 5 for each message token that includes a matched term.
RECURSIVE Sum(_)
Sum(numbers) ==
  IF numbers = << >> THEN 0 ELSE Head(numbers) + Sum(Tail(numbers))

BaseScore(message, queryTokens, terms) ==
  LET messageTokens == tokenizeText(message.message)
      lowered == toLowerCase(message.message)
      phrase(token) == IF includes(lowered, token) THEN 10 ELSE 0
      termCount(term) ==
        5 * Len(SelectSeq(messageTokens, LAMBDA token : includes(token, term)))
  IN  Sum([i \in 1..Len(queryTokens) |-> phrase(queryTokens[i])])
        + Sum([i \in 1..Len(terms) |-> termCount(terms[i])])

\* A score that the length of the message does not boost.
noLengthBoost(length) == 10 * 10

\* The boosts for the length, in hundredths: 1.2 under 100 characters, and
\* 1.5 more under 50.
LengthBoost(length) ==
  (IF length < 100 THEN 12 ELSE 10) * (IF length < 50 THEN 15 ELSE 10)

\* calculateRelevanceScore, in ten-thousandths: the base score times the
\* boosts for the length, for a user's message (1.1) and for a message of
\* the last seven days (1.1).
calculateRelevanceScore(message, queryTokens, terms) ==
  BaseScore(message, queryTokens, terms)
    * LengthBoost(Len(message.message))
    * (IF ~message.isAI THEN 11 ELSE 10)
    * (IF Today - message.timestamp < 7 THEN 11 ELSE 10)

\* A context that keeps the matched message.
contextWithMatch(session, messageIndex) ==
  [before |-> SubSeq(session.messages, Max(1, messageIndex - 2), messageIndex),
   after |-> SubSeq(session.messages, messageIndex + 1,
                    Min(Len(session.messages), messageIndex + 2))]

\* getMessageContext(session, messageIndex) with contextSize 2; the index
\* counts from 1 here.
getMessageContext(session, messageIndex) ==
  [before |-> SubSeq(session.messages, Max(1, messageIndex - 2),
                     messageIndex - 1),
   after |-> SubSeq(session.messages, messageIndex + 1,
                    Min(Len(session.messages), messageIndex + 2))]

\* The SearchResult of a matching message.
SearchResult(session, messageIndex, filters) ==
  LET message == session.messages[messageIndex]
      terms == matchedTerms(message, filters.query)
  IN  [session |-> session,
       message |-> message,
       relevanceScore |->
         calculateRelevanceScore(message, tokenizeText(filters.query), terms),
       matchedTerms |-> Unique(terms, {}),
       context |-> getMessageContext(session, messageIndex)]

\* session.messages.forEach: a result for each message from index i on that
\* passes the filters and has a matched term.
RECURSIVE MessageResults(_, _, _)
MessageResults(session, i, filters) ==
  IF i > Len(session.messages) THEN << >>
  ELSE (IF /\ PassesFilters(filters, session.messages[i])
           /\ matchedTerms(session.messages[i], filters.query) # << >>
        THEN << SearchResult(session, i, filters) >>
        ELSE << >>)
         \o MessageResults(session, i + 1, filters)

\* sessions.forEach: the results of the sessions in the date range.
RECURSIVE SessionResults(_, _)
SessionResults(sessions, filters) ==
  IF sessions = << >> THEN << >>
  ELSE (IF InDateRange(filters, Head(sessions))
        THEN MessageResults(Head(sessions), 1, filters)
        ELSE << >>)
         \o SessionResults(Tail(sessions), filters)

\* The comparator of results.sort: negative when a goes before b.
Compare(filters, a, b) ==
  CASE filters.sortBy = "date" ->
         IF filters.sortOrder = "asc"
         THEN a.message.timestamp - b.message.timestamp
         ELSE b.message.timestamp - a.message.timestamp
    [] filters.sortBy = "length" ->
         IF filters.sortOrder = "asc"
         THEN Len(a.message.message) - Len(b.message.message)
         ELSE Len(b.message.message) - Len(a.message.message)
    [] OTHER -> b.relevanceScore - a.relevanceScore

\* Array.prototype.sort, which is stable: each result goes behind the
\* results that do not compare after it.
RECURSIVE InsertSorted(_, _, _)
InsertSorted(sorted, result, filters) ==
  IF sorted = << >> THEN << result >>
  ELSE IF Compare(filters, Head(sorted), result) <= 0
       THEN << Head(sorted) >> \o InsertSorted(Tail(sorted), result, filters)
       ELSE << result >> \o sorted

RECURSIVE SortResults(_, _, _)
SortResults(sorted, results, filters) ==
  IF results = << >> THEN sorted
  ELSE SortResults(InsertSorted(sorted, Head(results), filters),
                   Tail(results), filters)

\* No search statistics.
NoSearchStats == [totalResults |-> 0, sessionsSearched |-> 0]

\* No search made yet.
NoFilters == SearchFilters(<< >>, NoRange, "all", NoRange, "relevance", "desc")

\* useMessageSearch before any search: no sessions, no results.
NoSearch ==
  [sessions |-> << >>, filters |-> NoFilters, searched |-> FALSE,
   results |-> << >>, stats |-> NoSearchStats]

\* The texts of the messages: a short one, one with capitals and
\* punctuation, one without a match, one of 102 characters that starts like
\* the short one, and one a letter longer than the short one.
ShortText == << "a", "b", "c" >>
MixedText == << "A", "B", "C", " ", "d", "e", "." >>
OtherText == << "z", "z", "z" >>
LongText == ShortText \o Repeat(<< ".", ".", "." >>, 33)
LongerToken == << "a", "b", "c", "d" >>

\* The sessions searched: one of five messages from both senders, recent
\* and old, and one of two old messages of the assistant.
FirstSession ==
  ChatSession("s1", 9, 9,
    << ChatMessage("m1", ShortText, FALSE, 9),
       ChatMessage("m2", MixedText, TRUE, 9),
       ChatMessage("m3", OtherText, FALSE, 1),
       ChatMessage("m4", LongText, FALSE, 9),
       ChatMessage("m5", LongerToken, TRUE, 1) >>)

SecondSession ==
  ChatSession("s2", 1, 1,
    << ChatMessage("m6", ShortText, TRUE, 1),
       ChatMessage("m7", LongText, TRUE, 1) >>)

SessionLists ==
  { << >>, << FirstSession >>, << SecondSession >>,
    << FirstSession, SecondSession >>, << SecondSession, FirstSession >> }

\* The queries: a token of the messages, in lower and in upper case, a
\* longer token, a token with an underscore, a query too short for a
\* token, a phrase across two tokens, a token of one message only, and a
\* blank query.
Queries ==
  { << "a", "b", "c" >>,
    << "A", "B", "C" >>,
    << "a", "b", "c", "d" >>,
    << "a", "b", "c", "_", "d", "e" >>,
    << "a", "b" >>,
    << "c", " ", "d" >>,
    << "z", "z", "z" >>,
    << " " >> }

\* The filters beside the query: none, the sender, the date, the length,
\* and the other sort keys.
FilterVariants ==
  { SearchFilters(<< >>, NoRange, "all", NoRange, "relevance", "desc"),
    SearchFilters(<< >>, NoRange, "user", NoRange, "relevance", "asc"),
    SearchFilters(<< >>, [start |-> 5, end |-> 10], "ai", NoRange, "date", "asc"),
    SearchFilters(<< >>, NoRange, "all", [min |-> 4, max |-> 200], "length", "desc") }

Filters == { [f EXCEPT !.query = q] : f \in FilterVariants, q \in Queries }

\* ------------------------------------------------------------------ history
\* useMessagePersistence with nothing stored and nothing exported.
MaxMessages == 2
MaxDay == 2

\* No current session, and no text exported.
NoSession == ChatSession(<< >>, -1, -1, << >>)
NoExport == [kind |-> "none"]

NoHistory ==
  [session |-> NoSession, date |-> 0, exported |-> NoExport, format |-> "none"]

\* What saveMessage is given: a plain text, one with a quotation mark and a
\* backslash, and one with a line break.
MessageInputs ==
  { [message |-> << "a", "b", "c" >>, isAI |-> FALSE],
    [message |-> << "a", "\"", "\\" >>, isAI |-> TRUE],
    [message |-> << "a", "\n", "b" >>, isAI |-> FALSE] }

\* The decimal digits of a natural number.
Digit(n) == <<"0", "1", "2", "3", "4", "5", "6", "7", "8", "9">>[n + 1]

RECURSIVE Decimal(_)
Decimal(n) ==
  IF n < 10 THEN << Digit(n) >> ELSE Decimal(n \div 10) \o << Digit(n % 10) >>

\* Date.prototype.toISOString for the days of January 1970.
toISOString(date) ==
  << "1", "9", "7", "0", "-", "0", "1", "-" >>
    \o << Digit((date + 1) \div 10), Digit((date + 1) % 10) >>
    \o << "T", "0", "0", ":", "0", "0", ":", "0", "0", ".", "0", "0", "0", "Z" >>

\* const MAX_SESSIONS = 50
MAX_SESSIONS == 50

\* The state of the hook: what useState holds, what the callbacks of the
\* last render closed over, the item 'chat-sessions' of localStorage (its
\* dates in their JSON form), the saveMessage calls that await saveSessions,
\* and the ids of the messages whose saveMessage resolved.
ChatState(sessions, currentSession) ==
  [sessions |-> sessions, currentSession |-> currentSession]

\* JSON.stringify(limitedSessions): the dates become ISO strings.
Stored(sessions) ==
  [i \in 1..Len(sessions) |->
     [sessions[i] EXCEPT
        !.createdAt = toISOString(@), !.updatedAt = toISOString(@),
        !.messages = [j \in 1..Len(@) |-> [@[j] EXCEPT !.timestamp = toISOString(@)]]]]

\* An earlier session and the session that createSession made current.
EarlierSession == ChatSession(<< "s", "1" >>, 0, 0, << >>)
CurrentSession == ChatSession(<< "s", "2" >>, 0, 0, << >>)

NoChat ==
  [state |-> ChatState(<< >>, NoSession), rendered |-> ChatState(<< >>, NoSession),
   stored |-> << >>, calls |-> << >>, resolved |-> {}, clock |-> 0]

\* The hook after createSession and the render that followed.
ChatOpen ==
  LET sessions == << CurrentSession, EarlierSession >>
  IN  [NoChat EXCEPT !.state = ChatState(sessions, CurrentSession),
                     !.rendered = ChatState(sessions, CurrentSession),
                     !.stored = Stored(sessions)]

\* JSON.stringify of a string: in quotation marks, with the quotation mark,
\* the backslash and the line break escaped.
RECURSIVE Escaped(_)
Escaped(text) ==
  IF text = << >> THEN << >>
  ELSE (CASE Head(text) = "\"" -> << "\\", "\"" >>
          [] Head(text) = "\\" -> << "\\", "\\" >>
          [] Head(text) = "\n" -> << "\\", "n" >>
          [] OTHER -> << Head(text) >>)
         \o Escaped(Tail(text))

\* The JSON text, as the tree of its literals: a string, a number, a
\* boolean, an array of texts, an object of named texts.
JsonString(text) ==
  [kind |-> "string", text |-> << "\"" >> \o Escaped(text) \o << "\"" >>]
JsonNumber(n) == [kind |-> "number", text |-> Decimal(n)]
JsonBoolean(b) ==
  [kind |-> "boolean",
   text |-> IF b THEN << "t", "r", "u", "e" >> ELSE << "f", "a", "l", "s", "e" >>]
JsonArray(items) == [kind |-> "array", items |-> items]
JsonObject(names, members) ==
  [kind |-> "object", names |-> names, members |-> members]

\* A Date is written by its toJSON, which is toISOString.
JsonDate(date) == JsonString(toISOString(date))

\* JSON.stringify of a message.
MessageJson(message) ==
  JsonObject(<< "message", "isAI", "id", "timestamp" >>,
             << JsonString(message.message), JsonBoolean(message.isAI),
                JsonString(message.id), JsonDate(message.timestamp) >>)

\* The members of a session in JSON, in the order of its properties.
SessionNames == << "id", "messages", "createdAt", "updatedAt" >>
SessionMembers(session) ==
  << JsonString(session.id),
     JsonArray([i \in 1..Len(session.messages) |->
                  MessageJson(session.messages[i])]),
     JsonDate(session.createdAt), JsonDate(session.updatedAt) >>

\* getSessionStats(session)
getSessionStats(session) ==
  LET messages == session.messages
      totalCharacters == Sum([i \in 1..Len(messages) |-> Len(messages[i].message)])
  IN  [userMessages |-> Len(SelectSeq(messages, LAMBDA m : ~m.isAI)),
       aiMessages |-> Len(SelectSeq(messages, LAMBDA m : m.isAI)),
       totalMessages |-> Len(messages),
       totalCharacters |-> totalCharacters,
       averageMessageLength |->
         IF Len(messages) > 0
         THEN (2 * totalCharacters + Len(messages)) \div (2 * Len(messages))
         ELSE 0,
       duration |-> session.updatedAt - session.createdAt]

StatsJson(stats) ==
  JsonObject(<< "userMessages", "aiMessages", "totalMessages",
                "totalCharacters", "averageMessageLength", "duration" >>,
             << JsonNumber(stats.userMessages), JsonNumber(stats.aiMessages),
                JsonNumber(stats.totalMessages),
                JsonNumber(stats.totalCharacters),
                JsonNumber(stats.averageMessageLength),
                JsonNumber(stats.duration) >>)

\* exportSession(sessionId, "json") of the hook: JSON.stringify(session, null, 2).
exportSession(session) == JsonObject(SessionNames, SessionMembers(session))

\* An export that leaves the properties of the session out.
formatWithoutSession(session, date) ==
  JsonObject(<< "exportedAt", "stats" >>,
             << JsonDate(date), StatsJson(getSessionStats(session)) >>)

\* formatSessionForExport(session, "json"): the session with exportedAt and
\* stats.
formatSessionForExport(session, date) ==
  JsonObject(SessionNames \o << "exportedAt", "stats" >>,
             SessionMembers(session)
               \o << JsonDate(date), StatsJson(getSessionStats(session)) >>)

\* JSON.parse of a string literal: without its quotation marks and escapes.
RECURSIVE Unescaped(_)
Unescaped(text) ==
  IF text = << >> THEN << >>
  ELSE IF Head(text) = "\\"
       THEN << (IF text[2] = "n" THEN "\n" ELSE text[2]) >>
              \o Unescaped(Tail(Tail(text)))
       ELSE << Head(text) >> \o Unescaped(Tail(text))

\* JSON.parse of a number literal.
RECURSIVE Numeral(_)
Numeral(text) ==
  IF text = << >> THEN 0
  ELSE 10 * Numeral(SubSeq(text, 1, Len(text) - 1))
         + (CHOOSE n \in 0..9 : Digit(n) = text[Len(text)])

\* JSON.parse: a string, a number, a boolean, a sequence, or an object as
\* its names and their values.
RECURSIVE ParseJson(_)
ParseJson(json) ==
  CASE json.kind = "string" -> Unescaped(SubSeq(json.text, 2, Len(json.text) - 1))
    [] json.kind = "number" -> Numeral(json.text)
    [] json.kind = "boolean" -> json.text = << "t", "r", "u", "e" >>
    [] json.kind = "array" ->
         [i \in 1..Len(json.items) |-> ParseJson(json.items[i])]
    [] json.kind = "object" ->
         [names |-> json.names,
          values |-> [i \in 1..Len(json.members) |-> ParseJson(json.members[i])]]

\* object[name] of a parsed object that has the property.
Property(object, name) ==
  object.values[CHOOSE i \in 1..Len(object.names) : object.names[i] = name]

HasProperty(object, name) == name \in Range(object.names)


\* The parts beside the cache at rest: a client with no request in flight,
\* no search made, no session kept.
\* The window of the rate limit and the least time between two requests, in
\* milliseconds.
WindowMs == 60000
MinGapMs == 100

\* The callers of makeRequest, the requests they make in all, and the times
\* the clock is advanced.
MaxCallers == 2
MaxRequests == 3
MaxAdvances == 4

\* Date.now() when the client is constructed: later than a window after the
\* time 0 that lastRequestTime starts with.
StartMs == 100000

\* A caller outside makeRequest.
NoCaller == [phase |-> "idle", now |-> 0, wake |-> 0]

\* A ChatApiClient as its constructor leaves it, with the rateLimitPerMinute
\* of its configuration; fetches are the times at which fetch was called.
RateLimiter(rateLimitPerMinute) ==
  [rateLimitPerMinute |-> rateLimitPerMinute, time |-> StartMs, advances |-> 0,
   requestQueue |-> << >>, lastRequestTime |-> 0,
   callers |-> [c \in 1..MaxCallers |-> NoCaller], started |-> 0,
   fetches |-> << >>]

AppsIdle ==
  /\ client = ChatApiClient(1)
  /\ search = NoSearch
  /\ history = NoHistory
  /\ chat = NoChat
  /\ limiter = RateLimiter(1)

\* -------------------------------------------------------------------- calls
Idle ==
  [kind |-> "idle", phase |-> "-", tx |-> 0, ops |-> << >>, idx |-> 0,
   key |-> "-", entry |-> NoEntry]

\* The caller is between two operations.
CallerIdle == call.kind = "idle"

\* Timers and other tasks run: no handler is running, or the one in flight
\* awaits crypto.subtle.digest.
TaskTurn == call.kind = "idle" \/ call.phase = "digest"

\* What the step just taken was: the operation, its arguments and its
\* outcome, and whether it changed the media.
Done(op, k, v, tx, out) ==
  [op |-> op, key |-> k, value |-> v, tx |-> tx, result |-> out.result,
   layer |-> out.layer, threw |-> out.threw, events |-> out.events,
   changed |-> out.store # store, ttl |-> NoTtl, metadata |-> NoMetadata]

Threw == Outcome(store, Null, NoLayer, TRUE, {})
Returned == Outcome(store, Null, NoLayer, FALSE, {})
Background(op, tx) == Done(op, "-", "-", tx, Returned)

SupportedTypes == {MemoryLayer, StorageLayer}

\* scheduleWriteBack(entry) after a write under the write-back policy.
scheduleWriteBack(k, entry, out) ==
  IF config.writePolicy = "write-back" /\ ~out.threw
  THEN [writeBack EXCEPT ![k] = entry]
  ELSE writeBack

\* The runtime: the layers configured, and whether it has a localStorage.
Environments ==
  { [layers |-> l, localStorage |-> TRUE] : l \in LayerConfigurations }
    \cup { [layers |-> DefaultLayers, localStorage |-> FALSE] }

\* The sinks and the background tasks as the constructor leaves them:
\* initializeMetrics, no listener, and the two interval timers that
\* startBackgroundTasks arms under the default configuration.
ServicesStarted ==
  /\ metrics = initializeMetrics
  /\ snapshot = NoSnapshot
  /\ eventListeners = NoListeners
  /\ delivered = << >>
  /\ cleanupTimer = TRUE
  /\ syncTimer = TRUE
  /\ teardown = << >>

\* The cache as its constructor leaves it: initializeLayers has reached its
\* first await and no adapter is registered yet.
Constructed(env, policy) ==
  /\ config = [layers |-> env.layers, writePolicy |-> policy]
  /\ hasLocalStorage = env.localStorage
  /\ initIdx = 0
  /\ layers = << >>
  /\ store = [n \in SupportedTypes |-> EmptyLayer]
  /\ now = 0
  /\ writeBack = EmptyLayer
  /\ transactions = << >>
  /\ timers = << >>
  /\ nextTxId = 1
  /\ txStatus = [id \in TxIds |-> "none"]
  /\ call = Idle
  /\ last = Background("new", 0)
  /\ ServicesStarted
  /\ AppsIdle

Init == \E env \in Environments, policy \in WritePolicies : Constructed(env, policy)

\* One turn of the loop of initializeLayers: createLayer and this.layers.set,
\* or the catch for a type createLayer cannot construct.
InitializeLayer ==
  /\ TaskTurn
  /\ initIdx < Len(config.layers)
  /\ initIdx' = initIdx + 1
  /\ LET l == config.layers[initIdx + 1]
     IN  layers' = IF l.enabled /\ l.name \in SupportedTypes
                   THEN Append(layers, l.name)
                   ELSE layers
  /\ last' = Background("initializeLayers", 0)
  /\ UNCHANGED << apps, services, config, hasLocalStorage, store, now, writeBack,
                  transactions,
                  timers, nextTxId, txStatus, call >>

Tick ==
  /\ TaskTurn
  /\ now < MaxTime
  /\ now' = now + 1
  /\ last' = Background("tick", 0)
  /\ UNCHANGED << apps, services, config, hasLocalStorage, initIdx, layers, store, writeBack,
                  transactions, timers, nextTxId, txStatus, call >>

Get(k) ==
  /\ CallerIdle
  /\ \E q \in OutcomesFor(PromotionTargets(store, k)) :
       \E out \in {get(store, k, q)} :
         /\ store' = out.store
         /\ last' = Done("get", k, "-", 0, out)
  /\ UNCHANGED << apps, services, config, hasLocalStorage, initIdx, layers, now, writeBack,
                  transactions, timers, nextTxId, txStatus, call >>

\* set() called without options.checksum: it runs to its end.
Set(k, v, ttl) ==
  /\ CallerIdle
  /\ \E q \in OutcomesFor(PolicyTargets) :
       \E entry \in {NewEntry(v, ttl)} :
         \E out \in {setEntry(store, k, entry, q)} :
           /\ store' = out.store
           /\ writeBack' = scheduleWriteBack(k, entry, out)
           /\ last' = [Done("set", k, v, 0, out) EXCEPT
                         !.ttl = ttl, !.metadata = EntryMetadata(ttl)]
  /\ UNCHANGED << apps, services, config, hasLocalStorage, initIdx, layers, now,
                  transactions, timers, nextTxId, txStatus, call >>

\* LocalStorageCacheLayer.set(entry), as a write path of the cache calls it.
AdapterSet(k, v, accepts) ==
  /\ CallerIdle
  /\ isEnabled(StorageLayer)
  /\ \E w \in {setCounted(store, k, NewEntry(v, NoTtl), accepts)} :
       /\ store' = w.store
       /\ last' = [Done("adapter.set", k, v, 0,
                        Outcome(w.store, Null, StorageLayer, ~w.ok, {})) EXCEPT
                     !.result = [attempts |-> w.attempts, cleanups |-> w.cleanups,
                                 accepts |-> accepts]]
  /\ UNCHANGED << apps, services, config, hasLocalStorage, initIdx, layers, now,
                  writeBack, transactions, timers, nextTxId, txStatus, call >>

Delete(k) ==
  /\ CallerIdle
  /\ \E out \in {delete(store, k)} :
       /\ store' = out.store
       /\ last' = Done("delete", k, "-", 0, out)
  /\ UNCHANGED << apps, services, config, hasLocalStorage, initIdx, layers, now, writeBack,
                  transactions, timers, nextTxId, txStatus, call >>

Clear(pattern) ==
  /\ CallerIdle
  /\ \E out \in {clear(store, pattern)} :
       /\ store' = out.store
       /\ last' = Done("clear", pattern, "-", 0, out)
  /\ UNCHANGED << apps, services, config, hasLocalStorage, initIdx, layers, now, writeBack,
                  transactions, timers, nextTxId, txStatus, call >>

\* The cleanup interval timer.
Cleanup ==
  /\ TaskTurn
  /\ cleanupTimer
  /\ store' = cleanup(store)
  /\ last' = Background("cleanup", 0)
  /\ UNCHANGED << apps, services, config, hasLocalStorage, initIdx, layers, now, writeBack,
                  transactions, timers, nextTxId, txStatus, call >>

\* The propagation scheduleWriteBack scheduled: the entry goes to the layers
\* behind the highest-priority one; nobody awaits it.
WriteBackFlush(k) ==
  /\ TaskTurn
  /\ writeBack[k] # NoEntry
  /\ \E q \in OutcomesFor(EnabledInPriority) :
       store' = writeToStorageLayers(store, k, writeBack[k], q).store
  /\ writeBack' = [writeBack EXCEPT ![k] = NoEntry]
  /\ last' = Background("writeBack", 0)
  /\ UNCHANGED << apps, services, config, hasLocalStorage, initIdx, layers, now,
                  transactions, timers, nextTxId, txStatus, call >>

BeginTransaction ==
  /\ CallerIdle
  /\ nextTxId \in TxIds
  /\ transactions' = With(transactions, nextTxId, << >>)
  /\ timers' = With(timers, nextTxId, now + TxTimeout)
  /\ txStatus' = [txStatus EXCEPT ![nextTxId] = "open"]
  /\ nextTxId' = nextTxId + 1
  /\ last' = Background("begin", nextTxId)
  /\ UNCHANGED << apps, services, config, hasLocalStorage, initIdx, layers, store, now,
                  writeBack, call >>

\* The caller appends an operation to a transaction it began.
RecordOperation(id, op) ==
  /\ CallerIdle
  /\ id \in DOMAIN transactions
  /\ Len(transactions[id]) < MaxOps
  /\ transactions' = [transactions EXCEPT ![id] = Append(@, op)]
  /\ last' = Background("record", id)
  /\ UNCHANGED << apps, services, config, hasLocalStorage, initIdx, layers, store, now,
                  writeBack, timers, nextTxId, txStatus, call >>

\* commitTransaction for an id the registry does not hold: it throws.
CommitUnknown(id) ==
  /\ CallerIdle
  /\ id \notin DOMAIN transactions
  /\ last' = Done("commit", "-", "not found", id, Threw)
  /\ UNCHANGED << apps, services, config, hasLocalStorage, initIdx, layers, store, now,
                  writeBack, transactions, timers, nextTxId, txStatus, call >>

\* commitTransaction: the loop over the transaction's operations starts.
CommitTransaction(id) ==
  /\ CallerIdle
  /\ id \in DOMAIN transactions
  /\ call' = [Idle EXCEPT !.kind = "commit", !.phase = "run", !.tx = id,
                          !.ops = transactions[id], !.idx = 1]
  /\ last' = Background("commitStart", id)
  /\ UNCHANGED << apps, services, config, hasLocalStorage, initIdx, layers, store, now,
                  writeBack, transactions, timers, nextTxId, txStatus >>

Committing == call.kind = "commit" /\ call.phase = "run"

\* A commitTransaction is under way: replaying, or awaiting the digest.
CommitInFlight == call.kind = "commit"

\* The catch of commitTransaction: rollbackTransaction, and the error goes
\* on.  The call keeps, for the record, the operations it replayed and the
\* index of the one that failed.
CommitFail(st) ==
  /\ \E undone \in {rollbackTransaction(st, call.tx)} : store' = undone
  /\ transactions' = Without(transactions, call.tx)
  /\ txStatus' = IF call.tx \in DOMAIN transactions
                 THEN [txStatus EXCEPT ![call.tx] = "rolled-back"]
                 ELSE txStatus
  /\ call' = [Idle EXCEPT !.ops = call.ops, !.idx = call.idx]
  /\ last' = Done("commit", "-", "operation failed", call.tx, Threw)

\* An operation of the transaction was replayed and the loop goes on.
Replayed(st) ==
  /\ store' = st
  /\ call' = [call EXCEPT !.phase = "run", !.idx = @ + 1, !.key = "-",
                          !.entry = NoEntry]
  /\ last' = Background("replay", call.tx)
  /\ UNCHANGED << transactions, txStatus >>

\* The loop is through: this.transactions.delete(id), and the call resolves.
CommitDone ==
  /\ Committing
  /\ call.idx > Len(call.ops)
  /\ transactions' = Without(transactions, call.tx)
  /\ txStatus' = [txStatus EXCEPT ![call.tx] = "committed"]
  /\ call' = Idle
  /\ last' = Done("commit", "-", "-", call.tx, Returned)
  /\ UNCHANGED << apps, services, config, hasLocalStorage, initIdx, layers, store, now,
                  writeBack, timers, nextTxId >>

\* executeOperation of a set without options.checksum.
CommitSet ==
  /\ Committing
  /\ call.idx <= Len(call.ops)
  /\ \E op \in {call.ops[call.idx]} :
       /\ op.type = "set" /\ ~op.checksum
       /\ \E q \in OutcomesFor(PolicyTargets), entry \in {NewEntry(op.value, NoTtl)} :
            \E out \in {setEntry(store, op.key, entry, q)} :
              /\ writeBack' = scheduleWriteBack(op.key, entry, out)
              /\ IF out.threw THEN CommitFail(out.store)
                 ELSE Replayed(out.store)
  /\ UNCHANGED << apps, services, config, hasLocalStorage, initIdx, layers, now, timers,
                  nextTxId >>

\* executeOperation of a set with options.checksum: set() constructs the
\* entry and awaits calculateChecksum.
CommitSetChecksum ==
  /\ Committing
  /\ call.idx <= Len(call.ops)
  /\ LET op == call.ops[call.idx]
     IN  /\ op.type = "set" /\ op.checksum
         /\ call' = [call EXCEPT !.phase = "digest", !.key = op.key,
                                 !.entry = NewEntry(op.value, NoTtl)]
  /\ last' = Background("await", call.tx)
  /\ UNCHANGED << apps, services, config, hasLocalStorage, initIdx, layers, store, now,
                  writeBack, transactions, timers, nextTxId, txStatus >>

\* crypto.subtle.digest settles for a set() that commitTransaction replays.
DigestSettlesCommit(ok) ==
  /\ call.kind = "commit" /\ call.phase = "digest"
  /\ \E q \in OutcomesFor(PolicyTargets) :
       \E out \in {IF ok THEN setEntry(store, call.key, call.entry, q) ELSE Threw} :
         /\ writeBack' = IF ok THEN scheduleWriteBack(call.key, call.entry, out)
                         ELSE writeBack
         /\ IF out.threw THEN CommitFail(out.store)
            ELSE Replayed(out.store)
  /\ UNCHANGED << apps, services, config, hasLocalStorage, initIdx, layers, now, timers,
                  nextTxId >>

CommitDelete ==
  /\ Committing
  /\ call.idx <= Len(call.ops)
  /\ call.ops[call.idx].type = "delete"
  /\ Replayed(delete(store, call.ops[call.idx].key).store)
  /\ UNCHANGED << apps, services, config, hasLocalStorage, initIdx, layers, now, writeBack,
                  timers, nextTxId >>

\* executeOperation's default case throws.
CommitUnknownOperation ==
  /\ Committing
  /\ call.idx <= Len(call.ops)
  /\ call.ops[call.idx].type \notin {"get", "set", "delete", "clear"}
  /\ CommitFail(store)
  /\ UNCHANGED << apps, services, config, hasLocalStorage, initIdx, layers, now, writeBack,
                  timers, nextTxId >>

\* rollbackTransaction called by the caller.
RollbackTransaction(id) ==
  /\ CallerIdle
  /\ \E st \in {rollbackTransaction(store, id)} :
       /\ store' = st
       /\ last' = Done("rollback", "-", "-", id,
                       Outcome(st, Null, NoLayer, FALSE, {}))
  /\ transactions' = Without(transactions, id)
  /\ txStatus' = IF id \in DOMAIN transactions
                 THEN [txStatus EXCEPT ![id] = "rolled-back"]
                 ELSE txStatus
  /\ UNCHANGED << apps, services, config, hasLocalStorage, initIdx, layers, now, writeBack,
                  timers, nextTxId, call >>

\* rollbackTransaction called by the caller for a transaction of the
\* registry, the storage medium throwing on the removals of the reversals in
\* rejected.
RollbackRejecting(id, rejected) ==
  /\ CallerIdle
  /\ id \in DOMAIN transactions
  /\ rejected \subseteq 1..Len(transactions[id])
  /\ \E r \in {ReverseEach(store, transactions[id], Len(transactions[id]),
                           rejected, << >>)} :
       /\ store' = r.store
       /\ last' = [Done("rollbackTransaction", "-", "-", id,
                        Outcome(r.store, Null, NoLayer, FALSE, {})) EXCEPT
                     !.result = [order |-> r.order, rejected |-> rejected]]
  /\ transactions' = Without(transactions, id)
  /\ txStatus' = [txStatus EXCEPT ![id] = "rolled-back"]
  /\ UNCHANGED << apps, services, config, hasLocalStorage, initIdx, layers, now, writeBack,
                  timers, nextTxId, call >>

\* A timer is due and the event loop is free to run its callback.
TimerDue(id) == TaskTurn /\ id \in DOMAIN timers /\ now >= timers[id]

\* A timer whose callback leaves the transaction alone.
timerWithoutRollback(id) ==
  /\ TimerDue(id)
  /\ timers' = Without(timers, id)
  /\ last' = Background("timer", id)
  /\ UNCHANGED << apps, services, config, hasLocalStorage, initIdx, layers, store, now,
                  writeBack, transactions, nextTxId, txStatus, call >>

\* The timer beginTransaction armed fires: rollbackTransaction if the
\* registry still holds the id.
TimerFires(id) ==
  /\ TimerDue(id)
  /\ timers' = Without(timers, id)
  /\ \E st \in {rollbackTransaction(store, id)} :
       /\ store' = st
       /\ last' = Done("timer", "-", "-", id,
                       Outcome(st, Null, NoLayer, FALSE, {}))
  /\ transactions' = Without(transactions, id)
  /\ txStatus' = IF id \in DOMAIN transactions
                 THEN [txStatus EXCEPT ![id] = "rolled-back"]
                 ELSE txStatus
  /\ UNCHANGED << apps, services, config, hasLocalStorage, initIdx, layers, now, writeBack,
                  nextTxId, call >>

\* --------------------------------------------------------------- synchronize
\* The order in which an adapter's keys are visited.
KeyOrder == << "k1", "k2" >>

\* syncLayers(source, target), for the keys from the i-th on: each live entry
\* of the source is set in the target.
RECURSIVE SyncKeys(_, _, _, _, _)
SyncKeys(st, source, target, i, q) ==
  IF i > Len(KeyOrder) THEN [store |-> st, ok |-> TRUE]
  ELSE LET entry == LayerGet(st, source, KeyOrder[i])
       IN  IF entry = NoEntry \/ isExpired(entry)
           THEN SyncKeys(st, source, target, i + 1, q)
           ELSE LET w == LayerSet(st, target, KeyOrder[i], entry, q)
                IN  IF w.ok THEN SyncKeys(w.store, source, target, i + 1, q)
                    ELSE [store |-> w.store, ok |-> FALSE]

syncLayers(st, source, target, q) == SyncKeys(st, source, target, 1, q)

\* The loop of synchronize over the enabled adapters, in the order of
\* this.layers.values(): from each to the next.
RECURSIVE SyncFrom(_, _, _, _)
SyncFrom(st, names, i, q) ==
  IF i >= Len(names) THEN [store |-> st, ok |-> TRUE]
  ELSE LET s == syncLayers(st, names[i], names[i + 1], q)
       IN  IF s.ok THEN SyncFrom(s.store, names, i + 1, q)
           ELSE [store |-> s.store, ok |-> FALSE]

\* AdvancedCache.synchronize
synchronize(st, q) ==
  LET s == SyncFrom(st, EnabledInInsertion, 1, q)
  IN  IF s.ok THEN Outcome(s.store, Null, NoLayer, FALSE, {"sync"})
      ELSE Outcome(s.store, Null, NoLayer, TRUE, {})

\* -------------------------------------------------------------------- query
\* A CacheQuery: its key, its keyPattern and its limit, each absent or given.
NoKey == "-"
NoLimit == -1
CacheQuery(key, keyPattern, limit) ==
  [key |-> key, keyPattern |-> keyPattern, limit |-> limit]

\* matchesQuery(entry, query), for the key and the keyPattern.
matchesQuery(k, query) ==
  /\ query.key = NoKey \/ k = query.key
  /\ query.keyPattern = NoPattern \/ RegExpTest(query.keyPattern, k)

\* layer.query(query): the entries of the adapter that match, each with its
\* key; the localStorage adapter reads each with its get.
RECURSIVE LayerQuery(_, _, _, _)
LayerQuery(st, name, query, i) ==
  IF i > Len(KeyOrder) THEN << >>
  ELSE LET k == KeyOrder[i]
           entry == LayerGet(st, name, k)
       IN  (IF entry # NoEntry /\ matchesQuery(k, query)
            THEN << [key |-> k, entry |-> entry] >> ELSE << >>)
             \o LayerQuery(st, name, query, i + 1)

SeenKeys(results) == { results[i].key : i \in 1..Len(results) }

\* A merge that keeps the first entry of a key, expired or not.
RECURSIVE mergeFirstSeen(_, _)
mergeFirstSeen(results, layerResults) ==
  IF layerResults = << >> THEN results
  ELSE LET found == Head(layerResults)
       IN  mergeFirstSeen(IF found.key \notin SeenKeys(results)
                          THEN Append(results, found) ELSE results,
                          Tail(layerResults))

\* The inner loop of query: an entry is kept if its key was not kept before
\* and it is not expired.
RECURSIVE mergeResults(_, _)
mergeResults(results, layerResults) ==
  IF layerResults = << >> THEN results
  ELSE LET found == Head(layerResults)
       IN  mergeResults(IF found.key \notin SeenKeys(results)
                             /\ ~isExpired(found.entry)
                        THEN Append(results, found) ELSE results,
                        Tail(layerResults))

\* The outer loop of query over getLayerPriority, from its i-th name on.
RECURSIVE QueryLayers(_, _, _, _)
QueryLayers(st, query, i, results) ==
  IF i > Len(getLayerPriority) THEN results
  ELSE LET name == getLayerPriority[i]
       IN  QueryLayers(st, query, i + 1,
                       IF isEnabled(name)
                       THEN mergeResults(results, LayerQuery(st, name, query, 1))
                       ELSE results)

\* applySortingAndPagination(results, query) for a query without a sort
\* field: the results by ascending key, and of them the first limit.
applySortingAndPagination(results, query) ==
  LET sorted == SelectSeq([i \in 1..Len(KeyOrder) |->
                             IF KeyOrder[i] \in SeenKeys(results)
                             THEN CHOOSE r \in Range(results) : r.key = KeyOrder[i]
                             ELSE [key |-> NoKey, entry |-> NoEntry]],
                          LAMBDA r : r.key # NoKey)
  IN  IF query.limit = NoLimit \/ query.limit >= Len(sorted) THEN sorted
      ELSE SubSeq(sorted, 1, query.limit)

\* AdvancedCache.query
query(st, descriptor) ==
  applySortingAndPagination(QueryLayers(st, descriptor, 1, << >>), descriptor)

\* The queries of the model: every entry, one key, one key by its pattern,
\* and the first entry only.
CacheQueries ==
  { CacheQuery(NoKey, NoPattern, NoLimit), CacheQuery("k1", NoPattern, NoLimit),
    CacheQuery(NoKey, "k2", NoLimit), CacheQuery(NoKey, NoPattern, 1) }

\* query(descriptor): the media stay as they are.
Query(descriptor) ==
  /\ CallerIdle
  /\ last' = [Done("query", descriptor.key, "-", 0, Returned) EXCEPT
                !.result = query(store, descriptor)]
  /\ UNCHANGED << apps, services, config, hasLocalStorage, initIdx, layers,
                  store, now, writeBack, transactions, timers, nextTxId,
                  txStatus, call >>

\* ------------------------------------------------------------------- warmup
\* const batchSize = 10
batchSize == 10

\* The keys warmup is called with: one more than a batch, over the keys of
\* the model in turn.
WarmKeys == [i \in 1..MaxKeys |-> KeyOrder[((i - 1) % Len(KeyOrder)) + 1]]

\* createBatches(items, batchSize): the batch of the i-th item, and the
\* number of batches.
BatchOf(i) == ((i - 1) \div batchSize) + 1
BatchCount(items) == (Len(items) + batchSize - 1) \div batchSize

\* batch.map(async (key) => ...): each item of the batch has called its
\* loader and awaits it.
StartBatch(items, n) ==
  [i \in 1..Len(items) |->
     IF BatchOf(i) = n THEN [items[i] EXCEPT !.status = "loading"] ELSE items[i]]

\* Promise.all(promises) of batch n resolves once each of its items is through.
Settled(status) == status \in {"set", "failed"}
BatchSettled(items, n) ==
  \A i \in 1..Len(items) : BatchOf(i) = n => Settled(items[i].status)

Warming == call.kind = "warmup"

\* warmup(keys, loader) up to its first await: the first batch is started.
Warmup ==
  /\ CallerIdle
  /\ call' = [Idle EXCEPT
                !.kind = "warmup", !.phase = "batch", !.idx = 1,
                !.ops = StartBatch([i \in 1..Len(WarmKeys) |->
                                      [key |-> WarmKeys[i], status |-> "pending"]],
                                   1)]
  /\ last' = Background("warm", 0)
  /\ UNCHANGED << apps, services, config, hasLocalStorage, initIdx, layers,
                  store, now, writeBack, transactions, timers, nextTxId,
                  txStatus >>

\* The loader of item i resolves and set(key, value) runs.
LoaderResolves(i) ==
  /\ Warming
  /\ i \in 1..Len(call.ops)
  /\ call.ops[i].status = "loading"
  /\ \E q \in OutcomesFor(PolicyTargets) :
       \E entry \in {NewEntry("a", NoTtl)} :
         \E out \in {setEntry(store, call.ops[i].key, entry, q)} :
           /\ store' = out.store
           /\ writeBack' = scheduleWriteBack(call.ops[i].key, entry, out)
           /\ call' = [call EXCEPT
                         !.ops[i].status = IF out.threw THEN "failed" ELSE "set"]
  /\ UNCHANGED << apps, services, config, hasLocalStorage, initIdx, layers, now,
                  transactions, timers, nextTxId, txStatus, last >>

\* A loader whose rejection nothing catches: Promise.all rejects, and warmup
\* with it.
loaderRejectsUncaught(i) ==
  /\ Warming
  /\ i \in 1..Len(call.ops)
  /\ call.ops[i].status = "loading"
  /\ call' = Idle
  /\ last' = [Done("warmup", "-", "-", 0, Threw) EXCEPT
                !.result = [call.ops EXCEPT ![i].status = "failed"]]
  /\ UNCHANGED << apps, services, config, hasLocalStorage, initIdx, layers,
                  store, now, writeBack, transactions, timers, nextTxId,
                  txStatus >>

\* The loader of item i rejects: the catch of the item logs it.
LoaderRejects(i) ==
  /\ Warming
  /\ i \in 1..Len(call.ops)
  /\ call.ops[i].status = "loading"
  /\ call' = [call EXCEPT !.ops[i].status = "failed"]
  /\ UNCHANGED << apps, services, config, hasLocalStorage, initIdx, layers,
                  store, now, writeBack, transactions, timers, nextTxId,
                  txStatus, last >>

\* await Promise.all(promises) resumes and the loop starts the next batch.
NextBatch ==
  /\ Warming
  /\ BatchSettled(call.ops, call.idx)
  /\ call.idx < BatchCount(call.ops)
  /\ call' = [call EXCEPT !.idx = @ + 1, !.ops = StartBatch(@, call.idx + 1)]
  /\ UNCHANGED << apps, services, config, hasLocalStorage, initIdx, layers,
                  store, now, writeBack, transactions, timers, nextTxId,
                  txStatus, last >>

\* await Promise.all(promises) resumes after the last batch: warmup resolves.
WarmupResolves ==
  /\ Warming
  /\ BatchSettled(call.ops, call.idx)
  /\ call.idx = BatchCount(call.ops)
  /\ call' = Idle
  /\ last' = [Done("warmup", "-", "-", 0, Returned) EXCEPT !.result = call.ops]
  /\ UNCHANGED << apps, services, config, hasLocalStorage, initIdx, layers,
                  store, now, writeBack, transactions, timers, nextTxId,
                  txStatus >>

\* ------------------------------------------------------- handlers, with sinks
MaxCalls == 2

\* The operations the metrics have counted, failed ones included.
Calls(m) ==
  LET n(o) == m.operations[o].count + m.operations[o].errors
  IN  n("get") + n("set") + n("delete") + n("clear") + n("sync")

\* The event a handler emits when it is through.
EventOf(out) == CHOOSE e \in out.events : TRUE

\* recordHit, recordMiss, recordSet, recordDelete, recordClear or recordSync,
\* as the handler of the operation calls it.
recordOutcome(m, op, out, time) ==
  CASE op = "get" -> IF out.layer # NoLayer THEN recordHit(m, time)
                     ELSE recordMiss(m, time)
    [] op = "set" -> recordSet(m, time)
    [] op = "delete" -> recordDelete(m, time)
    [] op = "clear" -> recordClear(m, time)
    [] OTHER -> recordSync(m, time)

\* The end of a handler whose work had the outcome `out`: record..., then
\* emitEvent, inside the try; the catch calls recordError and throws on.
Reported(op, out, time) ==
  IF out.threw
  THEN [metrics |-> recordError(metrics, op), called |-> << >>, out |-> out]
  ELSE LET m == recordOutcome(metrics, op, out, time)
           em == emitEvent(EventOf(out))
       IN  IF em.threw
           THEN [metrics |-> recordError(m, op), called |-> em.called,
                 out |-> [out EXCEPT !.threw = TRUE, !.result = Null]]
           ELSE [metrics |-> m, called |-> em.called, out |-> out]

\* The sinks after a handler: the metrics, the snapshot that shares their
\* operations object, and the listeners called.
Sinks(rep) ==
  /\ metrics' = rep.metrics
  /\ snapshot' = Aliased(snapshot, rep.metrics)
  /\ delivered' = rep.called

\* The caller may issue one more operation.
Metered == CallerIdle /\ Calls(metrics) < MaxCalls

\* get(), with its metrics and its event.
ObservedGet(k) ==
  /\ Metered
  /\ \E q \in OutcomesFor(PromotionTargets(store, k)), time \in Durations :
       \E out \in {get(store, k, q)} :
         \E rep \in {Reported("get", out, time)} :
           /\ store' = out.store
           /\ Sinks(rep)
           /\ last' = Done("get", k, "-", 0, rep.out)
  /\ UNCHANGED << apps, eventListeners, cleanupTimer, syncTimer, teardown,
                  config, hasLocalStorage, initIdx, layers, now, writeBack,
                  transactions, timers, nextTxId, txStatus, call >>

\* set() without options.checksum, with its metrics and its event.
ObservedSet(k, v, ttl) ==
  /\ Metered
  /\ \E q \in OutcomesFor(PolicyTargets), time \in Durations :
       \E entry \in {NewEntry(v, ttl)} :
         \E out \in {setEntry(store, k, entry, q)} :
           \E rep \in {Reported("set", out, time)} :
             /\ store' = out.store
             /\ writeBack' = scheduleWriteBack(k, entry, out)
             /\ Sinks(rep)
             /\ last' = [Done("set", k, v, 0, rep.out) EXCEPT
                           !.ttl = ttl, !.metadata = EntryMetadata(ttl)]
  /\ UNCHANGED << apps, eventListeners, cleanupTimer, syncTimer, teardown,
                  config, hasLocalStorage, initIdx, layers, now,
                  transactions, timers, nextTxId, txStatus, call >>

\* delete(), with its metrics and its event.
ObservedDelete(k) ==
  /\ Metered
  /\ \E time \in Durations :
       \E out \in {delete(store, k)} :
         \E rep \in {Reported("delete", out, time)} :
           /\ store' = out.store
           /\ Sinks(rep)
           /\ last' = Done("delete", k, "-", 0, rep.out)
  /\ UNCHANGED << apps, eventListeners, cleanupTimer, syncTimer, teardown,
                  config, hasLocalStorage, initIdx, layers, now, writeBack,
                  transactions, timers, nextTxId, txStatus, call >>

\* clear(), with its metrics and its event.
ObservedClear(pattern) ==
  /\ Metered
  /\ \E time \in Durations :
       \E out \in {clear(store, pattern)} :
         \E rep \in {Reported("clear", out, time)} :
           /\ store' = out.store
           /\ Sinks(rep)
           /\ last' = Done("clear", pattern, "-", 0, rep.out)
  /\ UNCHANGED << apps, eventListeners, cleanupTimer, syncTimer, teardown,
                  config, hasLocalStorage, initIdx, layers, now, writeBack,
                  transactions, timers, nextTxId, txStatus, call >>

\* The sync interval timer: synchronize(), whose rejection the callback logs.
Synchronize ==
  /\ TaskTurn
  /\ syncTimer
  /\ Calls(metrics) < MaxCalls
  /\ \E q \in OutcomesFor(EnabledInInsertion), time \in Durations :
       \E out \in {synchronize(store, q)} :
         \E rep \in {Reported("sync", out, time)} :
           /\ store' = out.store
           /\ Sinks(rep)
           /\ last' = Done("sync", "*", "-", 0, rep.out)
  /\ UNCHANGED << apps, eventListeners, cleanupTimer, syncTimer, teardown,
                  config, hasLocalStorage, initIdx, layers, now, writeBack,
                  transactions, timers, nextTxId, txStatus, call >>

\* on(event, listener), by a caller that has each of its listeners on one
\* event type at a time.
On(event, listener) ==
  /\ CallerIdle
  /\ \A e \in EventTypes : listener \notin Range(eventListeners[e])
  /\ eventListeners' = on(eventListeners, event, listener)
  /\ last' = Background("on", 0)
  /\ UNCHANGED << apps, metrics, snapshot, delivered, cleanupTimer, syncTimer,
                  teardown, config, hasLocalStorage, initIdx, layers, store,
                  now, writeBack, transactions, timers, nextTxId, txStatus,
                  call >>

\* off(event, listener)
Off(event, listener) ==
  /\ CallerIdle
  /\ listener \in Range(eventListeners[event])
  /\ eventListeners' = off(eventListeners, event, listener)
  /\ last' = Background("off", 0)
  /\ UNCHANGED << apps, metrics, snapshot, delivered, cleanupTimer, syncTimer,
                  teardown, config, hasLocalStorage, initIdx, layers, store,
                  now, writeBack, transactions, timers, nextTxId, txStatus,
                  call >>

\* getMetrics(): the caller keeps what it returned.
GetMetrics ==
  /\ CallerIdle
  /\ snapshot' = getMetrics(metrics)
  /\ last' = Background("getMetrics", 0)
  /\ UNCHANGED << apps, metrics, eventListeners, delivered, cleanupTimer,
                  syncTimer, teardown, config, hasLocalStorage, initIdx,
                  layers, store, now, writeBack, transactions, timers,
                  nextTxId, txStatus, call >>

\* resetMetrics(): this.metrics = this.initializeMetrics().
ResetMetrics ==
  /\ CallerIdle
  /\ metrics' = initializeMetrics
  /\ snapshot' = resetMetrics(snapshot)
  /\ last' = Background("resetMetrics", 0)
  /\ UNCHANGED << apps, eventListeners, delivered, cleanupTimer, syncTimer,
                  teardown, config, hasLocalStorage, initIdx, layers, store,
                  now, writeBack, transactions, timers, nextTxId, txStatus,
                  call >>

\* ------------------------------------------------------- ChatApiClient calls
\* A request is in flight.
RequestInFlight == client.phase # "idle"

\* makeRequest(endpoint, options) is called with attempt = 1 and reaches
\* await this.enforceRateLimit().
MakeRequest ==
  /\ ~RequestInFlight
  /\ client.consecutiveErrors < MaxErrors
  /\ client' = [client EXCEPT !.phase = "rateLimit", !.attempt = 1,
                              !.fetches = 0, !.settled = "none"]
  /\ UNCHANGED << cache, services, search, history, chat, limiter >>

\* enforceRateLimit has waited; the attempt arms its timeout and calls fetch.
EnforceRateLimit ==
  /\ client.phase = "rateLimit"
  /\ client' = [client EXCEPT !.phase = "fetch", !.fetches = @ + 1]
  /\ UNCHANGED << cache, services, search, history, chat, limiter >>

\* The fetch of the attempt settles, or its timeout aborts it.
FetchSettles(outcome) ==
  /\ client.phase = "fetch"
  /\ client' = afterFetch(client, outcome)
  /\ UNCHANGED << cache, services, search, history, chat, limiter >>

\* this.delay(delayTime) is over: makeRequest(endpoint, options, attempt + 1).
DelayElapses ==
  /\ client.phase = "delay"
  /\ client' = [client EXCEPT !.phase = "rateLimit", !.attempt = @ + 1]
  /\ UNCHANGED << cache, services, search, history, chat, limiter >>

\* ------------------------------------------------- the rate limit, in calls
\* The end of enforceRateLimit for caller c, from the check of the minimum
\* time between requests on: entered is the `now` the caller read on entry.
GapCheck(lim, c, entered) ==
  LET timeSinceLastRequest == entered - lim.lastRequestTime
  IN  IF timeSinceLastRequest < MinGapMs
      THEN [lim EXCEPT !.callers[c] =
              [phase |-> "gap", now |-> entered,
               wake |-> lim.time + (MinGapMs - timeSinceLastRequest)]]
      ELSE [lim EXCEPT !.lastRequestTime = lim.time,
                       !.callers[c] = [phase |-> "ready", now |-> entered, wake |-> 0]]

\* makeRequest calls enforceRateLimit, which runs to its first await or to
\* its end: the queue is filtered, and the caller waits for the oldest request
\* to leave the window, or goes on to the check of the minimum time.
EnterRateLimit(c) ==
  /\ limiter.callers[c].phase = "idle"
  /\ limiter.started < MaxRequests
  /\ LET entered == limiter.time
         recent == SelectSeq(limiter.requestQueue,
                             LAMBDA timestamp : timestamp > entered - WindowMs)
         lim == [limiter EXCEPT !.requestQueue = recent, !.started = @ + 1]
         waitTime == WindowMs - (entered - recent[1])
     IN  limiter' =
           IF Len(recent) >= limiter.rateLimitPerMinute /\ waitTime > 0
           THEN [lim EXCEPT !.callers[c] =
                   [phase |-> "window", now |-> entered, wake |-> lim.time + waitTime]]
           ELSE GapCheck(lim, c, entered)
  /\ UNCHANGED << cache, services, client, search, history, chat >>

\* The delay of the window is over: the check of the minimum time follows.
WindowWaitElapses(c) ==
  /\ limiter.callers[c].phase = "window"
  /\ limiter.time >= limiter.callers[c].wake
  /\ limiter' = GapCheck(limiter, c, limiter.callers[c].now)
  /\ UNCHANGED << cache, services, client, search, history, chat >>

\* The delay of the minimum time is over: lastRequestTime = Date.now().
GapWaitElapses(c) ==
  /\ limiter.callers[c].phase = "gap"
  /\ limiter.time >= limiter.callers[c].wake
  /\ limiter' = [limiter EXCEPT !.lastRequestTime = limiter.time,
                                !.callers[c].phase = "ready"]
  /\ UNCHANGED << cache, services, client, search, history, chat >>

\* makeRequest resumes after await this.enforceRateLimit(): fetch is called
\* and the request is pushed on the queue.
Dispatch(c) ==
  /\ limiter.callers[c].phase = "ready"
  /\ limiter' = [limiter EXCEPT
                   !.fetches = Append(@, limiter.time),
                   !.requestQueue = Append(@, limiter.time),
                   !.callers[c] = NoCaller]
  /\ UNCHANGED << cache, services, client, search, history, chat >>

\* The times at which a delay is over.
Wakes ==
  { limiter.callers[c].wake :
      c \in { x \in 1..MaxCallers : limiter.callers[x].phase \in {"window", "gap"} } }

\* The clock goes on, once the continuations that are ready have run, and
\* not past a delay that is not over.
TimePasses(ms) ==
  /\ ms > 0
  /\ limiter.advances < MaxAdvances
  /\ \A c \in 1..MaxCallers : limiter.callers[c].phase # "ready"
  /\ \A wake \in Wakes : wake > limiter.time /\ limiter.time + ms <= wake
  /\ limiter' = [limiter EXCEPT !.time = @ + ms, !.advances = @ + 1]
  /\ UNCHANGED << cache, services, client, search, history, chat >>

\* ------------------------------------------------------------- search calls
\* executeSearch(filters): nothing but empty results for a blank query;
\* else the results of the sessions, sorted, and the statistics.
ExecuteSearch(filters) ==
  /\ search' =
       IF Blank(filters.query)
       THEN [search EXCEPT !.filters = filters, !.searched = TRUE,
                           !.results = << >>]
       ELSE LET results ==
                  SortResults(<< >>, SessionResults(search.sessions, filters),
                              filters)
            IN  [search EXCEPT
                   !.filters = filters, !.searched = TRUE,
                   !.results = results,
                   !.stats = [totalResults |-> Len(results),
                              sessionsSearched |-> Len(search.sessions)]]
  /\ UNCHANGED << cache, services, client, history, chat, limiter >>

\* clearSearch()
ClearSearch ==
  /\ search.searched
  /\ search' = [search EXCEPT !.searched = FALSE, !.results = << >>,
                              !.stats = NoSearchStats]
  /\ UNCHANGED << cache, services, client, history, chat, limiter >>

\* -------------------------------------------------- saveMessage in flight
\* sessionsToSave.sort((a, b) => b.updatedAt - a.updatedAt): the later first,
\* ties in the order they had.
RECURSIVE byUpdatedAt(_)
byUpdatedAt(sessions) ==
  IF sessions = << >> THEN << >>
  ELSE LET latest == CHOOSE i \in 1..Len(sessions) :
                       /\ \A j \in 1..Len(sessions) :
                            sessions[j].updatedAt <= sessions[i].updatedAt
                       /\ \A j \in 1..(i - 1) :
                            sessions[j].updatedAt < sessions[i].updatedAt
       IN  << sessions[latest] >>
             \o byUpdatedAt(SubSeq(sessions, 1, latest - 1)
                              \o SubSeq(sessions, latest + 1, Len(sessions)))

\* limitedSessions of saveSessions.
limitedSessions(sessionsToSave) ==
  LET sorted == byUpdatedAt(sessionsToSave)
  IN  SubSeq(sorted, 1, IF Len(sorted) < MAX_SESSIONS THEN Len(sorted) ELSE MAX_SESSIONS)

\* updatedSession of saveMessage: the currentSession of the closure with the
\* new message appended.
updatedSession(input, id, date) ==
  [chat.rendered.currentSession EXCEPT
     !.messages = Append(@, ChatMessage(id, input.message, input.isAI, date)),
     !.updatedAt = date]

\* updatedSessions of saveMessage: the sessions of the closure, the current
\* one replaced.
updatedSessions(updated) ==
  [i \in 1..Len(chat.rendered.sessions) |->
     IF chat.rendered.sessions[i].id = chat.rendered.currentSession.id
     THEN updated ELSE chat.rendered.sessions[i]]

\* saveMessage(message) up to its await: it builds the message and the
\* updated session from its closure, and saveSessions writes the item and
\* calls setSessions, or the medium rejects the write and saveMessage throws.
SaveMessageStarts(input, accepted) ==
  /\ chat.rendered.currentSession # NoSession
  /\ chat.clock < MaxMessages
  /\ LET id == chat.clock + 1
         updated == updatedSession(input, id, id)
         limited == limitedSessions(updatedSessions(updated))
     IN  chat' = IF accepted
                 THEN [chat EXCEPT
                         !.clock = id,
                         !.stored = Stored(limited),
                         !.state.sessions = limited,
                         !.calls = Append(@, [id |-> id, updatedSession |-> updated])]
                 ELSE [chat EXCEPT !.clock = id]
  /\ UNCHANGED << cache, services, client, search, history, limiter >>

\* A saveMessage resumes after await saveSessions(...): setCurrentSession,
\* and the call resolves.
SaveMessageResolves(c) ==
  /\ c \in 1..Len(chat.calls)
  /\ chat' = [chat EXCEPT
                !.state.currentSession = chat.calls[c].updatedSession,
                !.resolved = @ \cup {chat.calls[c].id},
                !.calls = SubSeq(@, 1, c - 1) \o SubSeq(@, c + 1, Len(@))]
  /\ UNCHANGED << cache, services, client, search, history, limiter >>

\* React renders: the callbacks are made anew over the state.
Render ==
  /\ chat.rendered # chat.state
  /\ chat' = [chat EXCEPT !.rendered = chat.state]
  /\ UNCHANGED << cache, services, client, search, history, limiter >>

\* ------------------------------------------------------------ history calls
\* A day passes.
DayPasses ==
  /\ history.date < MaxDay
  /\ history' = [history EXCEPT !.date = @ + 1]
  /\ UNCHANGED << cache, services, client, search, chat, limiter >>

\* createSession(): a session without messages becomes the current one.
CreateSession ==
  /\ history.session = NoSession
  /\ history' = [history EXCEPT
                   !.session = ChatSession(<< "s", "e", "s", "s", "i", "o", "n", "-", "1" >>, history.date,
                                           history.date, << >>),
                   !.exported = NoExport, !.format = "none"]
  /\ UNCHANGED << cache, services, client, search, chat, limiter >>

\* saveMessage(message): the message gets its id and the present time and
\* is appended to the current session.
SaveMessage(input) ==
  /\ history.session # NoSession
  /\ Len(history.session.messages) < MaxMessages
  /\ LET newMessage ==
           ChatMessage(<< "m", "s", "g", "-" >> \o Decimal(Len(history.session.messages) + 1),
                       input.message, input.isAI, history.date)
     IN  history' = [history EXCEPT
                       !.session.messages = Append(@, newMessage),
                       !.session.updatedAt = history.date,
                       !.exported = NoExport, !.format = "none"]
  /\ UNCHANGED << cache, services, client, search, chat, limiter >>

\* exportSession(currentSession.id, "json")
ExportSession ==
  /\ history.session # NoSession
  /\ history' = [history EXCEPT !.exported = exportSession(history.session),
                                !.format = "json"]
  /\ UNCHANGED << cache, services, client, search, chat, limiter >>

\* formatSessionForExport(currentSession, "json")
FormatSessionForExport ==
  /\ history.session # NoSession
  /\ history' = [history EXCEPT
                   !.exported = formatSessionForExport(history.session, history.date),
                   !.format = "json"]
  /\ UNCHANGED << cache, services, client, search, chat, limiter >>

\* ------------------------------------------------------------------ destroy
\* A clearInterval that leaves the timer as it is.
keepInterval(armed) == armed

\* clearInterval(timer): the interval is not armed afterwards.
clearInterval(armed) == FALSE

\* close(): the memory adapter empties its map, the localStorage adapter
\* does nothing.
MemoryCacheLayer_close(st) == [st EXCEPT ![MemoryLayer] = EmptyLayer]
LocalStorageCacheLayer_close(st) == st

LayerClose(st, name) ==
  IF name = MemoryLayer THEN MemoryCacheLayer_close(st)
  ELSE LocalStorageCacheLayer_close(st)

\* layer.close() on every adapter of this.layers, enabled or not.
RECURSIVE CloseLayers(_, _)
CloseLayers(st, names) ==
  IF names = << >> THEN st
  ELSE CloseLayers(LayerClose(st, Head(names)), Tail(names))

\* The keys of this.transactions, in the order of insertion: the ids are
\* given in ascending order.
RECURSIVE Ascending(_)
Ascending(ids) ==
  IF ids = {} THEN << >>
  ELSE LET least == CHOOSE i \in ids : \A j \in ids : i <= j
       IN  << least >> \o Ascending(ids \ {least})

\* rollbackTransaction for each id of the registry in turn.
RECURSIVE RollbackAll(_, _)
RollbackAll(st, ids) ==
  IF ids = << >> THEN st
  ELSE RollbackAll(rollbackTransaction(st, Head(ids)), Tail(ids))

\* The sets that the rollback of the transactions reverses, each by a
\* delete().
RECURSIVE Reversals(_)
Reversals(ids) ==
  IF ids = << >> THEN 0
  ELSE Len(SelectSeq(transactions[Head(ids)], LAMBDA op : op.type = "set"))
         + Reversals(Tail(ids))

\* The metrics after n delete() calls.
RECURSIVE RecordDeletes(_, _, _)
RecordDeletes(m, n, time) ==
  IF n = 0 THEN m ELSE RecordDeletes(recordDelete(m, time), n - 1, time)

\* destroy(): the intervals are cleared, the transactions rolled back, the
\* adapters closed, and then the listeners dropped.
Destroy ==
  /\ CallerIdle
  /\ teardown = << >>
  /\ cleanupTimer' = clearInterval(cleanupTimer)
  /\ syncTimer' = clearInterval(syncTimer)
  /\ \E ids \in {Ascending(DOMAIN transactions)}, time \in Durations :
       /\ \E st \in {CloseLayers(RollbackAll(store, ids), layers)} :
            /\ store' = st
            /\ last' = Done("destroy", "-", "-", 0,
                            Outcome(st, Null, NoLayer, FALSE, {}))
       /\ \E m \in {RecordDeletes(metrics, Reversals(ids), time)} :
            /\ metrics' = m
            /\ snapshot' = Aliased(snapshot, m)
       /\ delivered' = IF Reversals(ids) > 0 THEN emitEvent("delete").called
                       ELSE delivered
       /\ txStatus' = [id \in TxIds |-> IF id \in DOMAIN transactions
                                        THEN "rolled-back" ELSE txStatus[id]]
  /\ transactions' = << >>
  /\ eventListeners' = NoListeners
  /\ teardown' = << "timers", "transactions" >> \o layers \o << "listeners" >>
  /\ UNCHANGED << apps, config, hasLocalStorage, initIdx, layers, now,
                  writeBack, timers, nextTxId, call >>

\* ------------------------------------------------------------ specifications
\* The cache under one caller's get, set, delete and clear, with its
\* background tasks.
Next ==
  \/ InitializeLayer
  \/ Tick
  \/ \E k \in Keys : Get(k)
  \/ \E v \in Values, ttl \in TtlOptions : Set("k1", v, ttl)
  \/ Set("k2", "a", NoTtl)
  \/ \E k \in Keys : Delete(k)
  \/ \E pattern \in {NoPattern} \cup Keys : Clear(pattern)
  \/ Cleanup
  \/ \E k \in Keys : WriteBackFlush(k)

Spec == Init /\ [][Next]_vars

\* The cache under one caller's transactions, with their timers.
TxNext ==
  \/ Tick
  \/ Set("k1", "date", NoTtl)
  \/ BeginTransaction
  \/ \E id \in TxIds, op \in Operations : RecordOperation(id, op)
  \/ \E id \in TxIds : CommitUnknown(id)
  \/ \E id \in TxIds : CommitTransaction(id)
  \/ CommitDone
  \/ CommitSet
  \/ CommitSetChecksum
  \/ \E ok \in BOOLEAN : DigestSettlesCommit(ok)
  \/ CommitDelete
  \/ CommitUnknownOperation
  \/ \E id \in TxIds : RollbackTransaction(id)
  \/ \E id \in TxIds : TimerFires(id)

\* The default configuration once initializeLayers is through.
CacheReady ==
  /\ config = [layers |-> DefaultLayers, writePolicy |-> "write-through"]
  /\ hasLocalStorage = TRUE
  /\ initIdx = Len(DefaultLayers)
  /\ layers = << MemoryLayer, StorageLayer >>
  /\ store = [n \in SupportedTypes |-> EmptyLayer]
  /\ now = 0
  /\ writeBack = EmptyLayer
  /\ transactions = << >>
  /\ timers = << >>
  /\ nextTxId = 1
  /\ txStatus = [id \in TxIds |-> "none"]
  /\ call = Idle
  /\ last = Background("new", 0)

TxInit == CacheReady /\ ServicesStarted /\ AppsIdle

TxSpec == TxInit /\ [][TxNext]_vars

\* The transactions again, under the scheduling the event loop gives: a timer
\* that is due fires once no handler runs, the digest settles, and a commit
\* that can go on goes on.  The caller is under no obligation.
CommitStep ==
  \/ CommitDone
  \/ CommitSet
  \/ CommitSetChecksum
  \/ \E ok \in BOOLEAN : DigestSettlesCommit(ok)
  \/ CommitDelete
  \/ CommitUnknownOperation

\* Weak fairness of the steps of a commit and of each timer, WF_vars(A)
\* written out as []<>~ENABLED <<A>>_vars \/ []<><<A>>_vars: a step of a
\* commit is enabled exactly while the commit is in flight, and a timer's
\* callback exactly while the timer is due.
FairTxSpec ==
  /\ TxInit
  /\ [][TxNext]_vars
  /\ ([]<>~CommitInFlight \/ []<><<CommitStep>>_vars)
  /\ \A id \in TxIds : ([]<>~TimerDue(id) \/ []<><<TimerFires(id)>>_vars)

\* The cache with listeners on its events.
EventNext ==
  \/ \E event \in EventTypes, listener \in Listeners : On(event, listener)
  \/ \E event \in EventTypes, listener \in Listeners : Off(event, listener)
  \/ \E k \in Keys : ObservedGet(k)
  \/ ObservedSet("k1", "a", NoTtl)
  \/ \E k \in Keys : ObservedDelete(k)
  \/ ObservedClear(NoPattern)
  \/ Synchronize

EventSpec == TxInit /\ [][EventNext]_vars


\* The cache with a caller that reads its metrics.
MetricsNext ==
  \/ GetMetrics
  \/ ResetMetrics
  \/ ObservedGet("k1")
  \/ ObservedSet("k1", "a", NoTtl)
  \/ ObservedDelete("k1")

MetricsSpec == TxInit /\ [][MetricsNext]_vars

\* The cache from its construction to its destruction, with its background
\* tasks and a caller that opens transactions and listens to deletes.
LifeInit ==
  \E localStorage \in BOOLEAN :
    Constructed([layers |-> DefaultLayers, localStorage |-> localStorage],
                "write-through")

LifeNext ==
  \/ InitializeLayer
  \/ ObservedSet("k1", "a", NoTtl)
  \/ \E listener \in Listeners : On("delete", listener)
  \/ BeginTransaction
  \/ \E id \in TxIds : RecordOperation(id, SetOp("k1", "a", FALSE))
  \/ Cleanup
  \/ Synchronize
  \/ Destroy

LifeSpec == LifeInit /\ [][LifeNext]_vars

\* A ChatApiClient, for each retryAttempts of its configuration, beside a
\* cache at rest.
ClientInit ==
  /\ CacheReady
  /\ ServicesStarted
  /\ \E retryAttempts \in 0..MaxRetries : client = ChatApiClient(retryAttempts)
  /\ search = NoSearch
  /\ history = NoHistory
  /\ chat = NoChat
  /\ limiter = RateLimiter(1)

\* What runs without the caller: the timers of delay and the fetch, which
\* the timeout of the attempt aborts if nothing else settles it.
ClientStep ==
  \/ EnforceRateLimit
  \/ \E outcome \in FetchOutcomes : FetchSettles(outcome)
  \/ DelayElapses

ClientNext ==
  \/ MakeRequest
  \/ ClientStep

ClientSpec == ClientInit /\ [][ClientNext]_vars

FairClientSpec == ClientSpec /\ WF_vars(ClientStep)

\* useMessageSearch over each of the session lists, beside a cache at rest.
SearchInit ==
  /\ CacheReady
  /\ ServicesStarted
  /\ client = ChatApiClient(1)
  /\ \E sessions \in SessionLists : search = [NoSearch EXCEPT !.sessions = sessions]
  /\ history = NoHistory
  /\ chat = NoChat
  /\ limiter = RateLimiter(1)

SearchNext ==
  \/ \E filters \in Filters : ExecuteSearch(filters)
  \/ ClearSearch

SearchSpec == SearchInit /\ [][SearchNext]_vars

\* useMessagePersistence with nothing stored, beside a cache at rest.
HistoryInit ==
  /\ CacheReady
  /\ ServicesStarted
  /\ AppsIdle

HistoryNext ==
  \/ DayPasses
  \/ CreateSession
  \/ \E input \in MessageInputs : SaveMessage(input)
  \/ ExportSession
  \/ FormatSessionForExport

HistorySpec == HistoryInit /\ [][HistoryNext]_vars

\* The cache with a caller that sets, gets and queries.
QueryNext ==
  \/ InitializeLayer
  \/ Tick
  \/ \E v \in Values : Set("k1", v, NoTtl)
  \/ Set("k2", "a", NoTtl)
  \/ Get("k1")
  \/ \E k \in Keys : WriteBackFlush(k)
  \/ \E descriptor \in CacheQueries : Query(descriptor)

QuerySpec == Init /\ [][QueryNext]_vars

\* The cache of every configuration with a caller that sets, and its
\* synchronization.
SyncNext ==
  \/ InitializeLayer
  \/ Tick
  \/ \E k \in Keys : Set(k, "a", NoTtl)
  \/ Synchronize

SyncSpec == Init /\ [][SyncNext]_vars

\* The cache under a caller that records operations and rolls back, with a
\* storage medium that may throw on a removal.
RollbackNext ==
  \/ \E k \in Keys : Set(k, "a", NoTtl)
  \/ BeginTransaction
  \/ \E id \in TxIds, op \in Operations : RecordOperation(id, op)
  \/ \E id \in TxIds, rejected \in SUBSET (1..MaxOps) : RollbackRejecting(id, rejected)
  \/ \E id \in TxIds : RollbackTransaction(id)

RollbackSpec == TxInit /\ [][RollbackNext]_vars

\* The cache under one call of warmup, its loaders settling in any order.
WarmupNext ==
  \/ Warmup
  \/ \E i \in 1..MaxKeys : LoaderResolves(i)
  \/ \E i \in 1..MaxKeys : LoaderRejects(i)
  \/ NextBatch
  \/ WarmupResolves

WarmupSpec == TxInit /\ [][WarmupNext]_vars

\* The localStorage adapter written to while time passes, the medium free to
\* reject each write.
AdapterNext ==
  \/ Tick
  \/ \E k \in Keys, v \in Values, accepts \in Acceptances : AdapterSet(k, v, accepts)
  \/ \E k \in Keys : Get(k)

AdapterSpec == TxInit /\ [][AdapterNext]_vars

\* useMessagePersistence with a session open and handleSend called at any
\* time, beside a cache at rest.
ChatInit ==
  /\ CacheReady
  /\ ServicesStarted
  /\ client = ChatApiClient(1)
  /\ search = NoSearch
  /\ history = NoHistory
  /\ chat = ChatOpen
  /\ limiter = RateLimiter(1)

ChatNext ==
  \/ \E input \in MessageInputs, accepted \in BOOLEAN : SaveMessageStarts(input, accepted)
  \/ \E c \in 1..MaxMessages : SaveMessageResolves(c)
  \/ Render

ChatSpec == ChatInit /\ [][ChatNext]_vars

\* A ChatApiClient with several callers of makeRequest, for each
\* rateLimitPerMinute of the model, beside a cache at rest.
LimiterInit ==
  /\ CacheReady
  /\ ServicesStarted
  /\ client = ChatApiClient(1)
  /\ search = NoSearch
  /\ history = NoHistory
  /\ chat = NoChat
  /\ \E rateLimitPerMinute \in 1..2 : limiter = RateLimiter(rateLimitPerMinute)

LimiterNext ==
  \/ \E c \in 1..MaxCallers : EnterRateLimit(c)
  \/ \E c \in 1..MaxCallers : WindowWaitElapses(c)
  \/ \E c \in 1..MaxCallers : GapWaitElapses(c)
  \/ \E c \in 1..MaxCallers : Dispatch(c)
  \/ \E ms \in {50, WindowMs} \cup { wake - limiter.time : wake \in Wakes } :
       TimePasses(ms)

LimiterSpec == LimiterInit /\ [][LimiterNext]_vars

\* ------------------------------------------------------------------- claims
\* The enabled layers in front of a layer in lookup order.
Ahead(layer) ==
  SelectSeq(SubSeq(getLayerPriority, 1, IndexOf(getLayerPriority, layer) - 1),
            isEnabled)

\* The last step was a get that returned a hit.
GetHit == last.op = "get" /\ last.layer # NoLayer

\* C1: when get(k) returns a hit served by a layer, then right after it every
\* enabled layer in front of that layer holds a live entry for k with the
\* value get returned.
C1_PromotionInvariant ==
  GetHit =>
    \A n \in Range(Ahead(last.layer)) :
      LET e == LayerGet(store, n, last.key)
      IN  e # NoEntry /\ ~isExpired(e) /\ e.value = last.result

\* C2: get never returns a value whose expiresAt lies before now, and a get
\* that finds nothing live reports a miss; an entry whose expiresAt equals
\* now is still served.
C2_TtlInvariant ==
  /\ GetHit =>
       LET e == LayerGet(store, last.layer, last.key)
       IN  e.value = last.result /\ e.expiresAt >= now
  /\ (last.op = "get" /\ ~last.threw /\ last.layer = NoLayer) =>
       (last.result = Null /\ last.events = {"miss"})

\* C2 as stated: get never returns a value whose expiresAt <= now, the
\* boundary expiresAt = now included.
C2_TtlInvariantAsStated ==
  GetHit => LayerGet(store, last.layer, last.key).expiresAt > now

\* A get came back a miss although an enabled layer holds an entry for the
\* key, one that expired.
C2_Witness ==
  /\ last.op = "get" /\ last.layer = NoLayer /\ ~last.threw
  /\ \E n \in Range(EnabledInPriority) :
       /\ store[n][last.key] # NoEntry
       /\ store[n][last.key].expiresAt < now

\* C3: of two sets of the same key, one after the other, the second leaves in
\* every layer that received the write a version strictly greater than the
\* one the first left there.
C3_VersionMonotonicity ==
  [][(/\ last.op = "set" /\ ~last.threw
      /\ last'.op = "set" /\ ~last'.threw
      /\ last'.key = last.key)
     => \A n \in Range(PolicyTargets) :
          store'[n][last.key].version > store[n][last.key].version]_vars

\* C4: after a set(k, v) under write-through that completed without error,
\* every enabled layer's adapter returns for k a live entry with value v.
C4_WriteThroughCompleteness ==
  (last.op = "set" /\ ~last.threw /\ config.writePolicy = "write-through") =>
    \A n \in Range(EnabledInPriority) :
      LET e == LayerGet(store, n, last.key)
      IN  e # NoEntry /\ ~isExpired(e) /\ e.value = last.value

\* C5: when an operation of a transaction fails during commitTransaction,
\* the call rejects, every key set by the operations before the failing one
\* is absent from all layers, and the transaction is rolled back and out of
\* the registry.
C5_AtomicityUnderFailure ==
  (last.op = "commit" /\ last.value = "operation failed") =>
    /\ last.threw
    /\ \A j \in 1..(call.idx - 1) :
         call.ops[j].type = "set" =>
           \A n \in SupportedTypes : store[n][call.ops[j].key] = NoEntry
    /\ last.tx \notin DOMAIN transactions
    /\ txStatus[last.tx] = "rolled-back"

C8_ProgramOrder ==
  [][(/\ initIdx = Len(config.layers)
      /\ last.op = "set" /\ ~last.threw
      /\ last'.op = "get" /\ last'.key = last.key)
     => (~last'.threw /\ last'.result = last.value)]_vars

Terminal == {"committed", "rolled-back"}

\* C9: a transaction that is open stays open or ends committed or rolled
\* back; one that has ended keeps the way it ended, a commitTransaction that
\* returns for it afterwards rejects, and a rollbackTransaction or its timer
\* changes nothing in the media.
C9_TerminalStates ==
  [][\A id \in TxIds :
       /\ txStatus[id] = "open" => txStatus'[id] \in {"open"} \cup Terminal
       /\ txStatus[id] \in Terminal =>
            /\ txStatus'[id] = txStatus[id]
            /\ (last'.op = "commit" /\ last'.tx = id) => last'.threw
            /\ (last'.op \in {"rollback", "timer"} /\ last'.tx = id) =>
                 store' = store]_vars

\* C10: a timer that is due eventually fires, and a transaction that is in
\* the registry when its timer is due is eventually out of the registry; the
\* timer's callback rolls back a transaction it finds there, and throws
\* nothing.
C10_TimeoutAutoRollback ==
  /\ \A id \in TxIds :
       (id \in DOMAIN timers /\ now >= timers[id]) ~> (id \notin DOMAIN timers)
  /\ \A id \in TxIds :
       (id \in DOMAIN transactions /\ id \in DOMAIN timers /\ now >= timers[id])
         ~> (id \notin DOMAIN transactions)
  /\ [][\A id \in TxIds :
          (last'.op = "timer" /\ last'.tx = id /\ id \in DOMAIN transactions) =>
            /\ id \notin DOMAIN transactions'
            /\ txStatus'[id] = "rolled-back"
            /\ store' = rollbackTransaction(store, id)
            /\ ~last'.threw]_vars

\* The timer rolled a transaction back and its sets were removed.
C10_Witness ==
  /\ last.op = "timer" /\ last.changed
  /\ txStatus[last.tx] = "rolled-back"

\* The enabled layers a get examined: all of them on a miss, those up to the
\* serving layer on a hit.
Scanned ==
  IF last.layer = NoLayer THEN Range(EnabledInPriority)
  ELSE Range(Ahead(last.layer)) \cup {last.layer}

\* C19: after a get(k) that returned, hit or miss, no enabled layer the scan
\* examined still holds an expired entry for k, and what it returned did not
\* come from an expired entry.
C19_LazyExpiry ==
  (last.op = "get" /\ ~last.threw) =>
    /\ \A n \in Scanned :
         store[n][last.key] = NoEntry \/ ~isExpired(store[n][last.key])
    /\ GetHit => ~isExpired(LayerGet(store, last.layer, last.key))

\* C20: the entry a set(k, v, options) constructs has createdAt = updatedAt =
\* now and accessCount = 0, and its expiresAt is now + options.ttl when a ttl
\* is supplied, 0 included, and now + defaultTTL only when none is.
C20_EntryConstruction ==
  last.op = "set" =>
    /\ last.metadata.createdAt = now
    /\ last.metadata.updatedAt = now
    /\ last.metadata.accessCount = 0
    /\ last.metadata.expiresAt =
         now + (IF last.ttl = NoTtl THEN DefaultTTL ELSE last.ttl)

\* What the handler of the operation that last' reports would have come to
\* with no listener registered: the outcomes of its own work.
Unheard ==
  CASE last'.op = "get" ->
         { get(store, last'.key, q) : q \in QuotaOutcomes }
    [] last'.op = "set" ->
         { setEntry(store, last'.key, NewEntry(last'.value, last'.ttl), q) :
             q \in QuotaOutcomes }
    [] last'.op = "delete" -> { delete(store, last'.key) }
    [] last'.op = "clear" -> { clear(store, last'.key) }
    [] OTHER -> { synchronize(store, q) : q \in QuotaOutcomes }

\* C11: when get, set, delete, clear or synchronize emits its event, every
\* listener registered for that event is called, in the order registered,
\* whether or not one of them throws, and the operation leaves the media and
\* returns or throws as it would have with no listener at all.
C11_ListenerIsolation ==
  [][last'.op \in {"get", "set", "delete", "clear", "sync"} =>
       \E out \in Unheard :
         /\ store' = out.store
         /\ last'.threw = out.threw
         /\ last'.result = out.result
         /\ ~out.threw => delivered' = eventListeners[EventOf(out)]]_vars

\* A get was served, its hit event went to a listener that threw and then
\* to one registered after it, and the get returned the value.
C11_Witness ==
  /\ last.op = "get" /\ last.layer # NoLayer /\ ~last.threw
  /\ last.result = "a"
  /\ delivered = << "thrower", "quiet" >>

\* C13: what getMetrics() returned does not change afterwards: the hits,
\* misses and hitRate and every count, totalTime, averageTime, minTime,
\* maxTime and errors under operations read from the returned object as
\* they did when the call returned, whatever the cache does after it.
C13_ImmutableSnapshot ==
  snapshot.taken => snapshot.seen = snapshot.returned

\* The adapters destroy() has closed.
Closed == Range(teardown) \cap SupportedTypes

Position(s, x) == CHOOSE i \in 1..Len(s) : s[i] = x

C14_BoundedRetries ==
  /\ [](client.fetches <= client.retryAttempts + 1)
  /\ (RequestInFlight ~> client.settled \in {"resolved", "rejected"})

\* A call that retried as often as the configuration allows and was then
\* rejected.
C14_Witness ==
  /\ client.retryAttempts = MaxRetries
  /\ client.fetches = client.retryAttempts + 1
  /\ client.settled = "rejected"

\* The tokens of a text as the rule states them: the lower-case runs,
\* longer than 2, of the characters of a class.
RuleTokens(text, InClass(_)) ==
  LET lowered == toLowerCase(text)
      cleaned == [i \in 1..Len(lowered) |->
                    IF InClass(lowered[i]) THEN lowered[i] ELSE " "]
  IN  SelectSeq(split(cleaned), LAMBDA token : Len(token) > 2)

\* The match set of the rule: the query tokens that equal a message token or
\* contain or are contained in one of a length at most 2 apart, and the raw
\* query if the message contains it, case ignored.
MatchSet(message, searchQuery, InClass(_)) ==
  { q \in Range(RuleTokens(searchQuery, InClass)) :
      \E m \in Range(RuleTokens(message.message, InClass)) :
        \/ m = q
        \/ /\ includes(m, q) \/ includes(q, m)
           /\ Len(m) - Len(q) \in -2..2 }
    \cup (IF includes(toLowerCase(message.message), toLowerCase(searchQuery))
          THEN {searchQuery} ELSE {})

\* The message at index i of the session is among the results.
Appears(session, i) ==
  \E r \in Range(search.results) :
    r.session.id = session.id /\ r.message.id = session.messages[i].id

\* After a search with a non-blank query, a message that passes the filters
\* is among the results if and only if its match set is not empty.
InclusionRule(InClass(_)) ==
  (search.searched /\ ~Blank(search.filters.query)) =>
    \A s \in Range(search.sessions) :
      \A i \in 1..Len(s.messages) :
        (InDateRange(search.filters, s) /\ PassesFilters(search.filters, s.messages[i]))
          => (Appears(s, i)
                <=> MatchSet(s.messages[i], search.filters.query, InClass) # {})

\* C15 as stated: after a search with a non-blank query, a message that
\* passes the date, sender and length filters is among the results if and
\* only if its match set is not empty, the tokens being the lower-case
\* alphanumeric runs longer than 2.
C15_SearchInclusion == InclusionRule(AlphanumericCharacter)

\* C15 as amended: the same rule with the tokens being the lower-case runs,
\* longer than 2, of letters, digits and underscores.
C15_SearchInclusionWordTokens == InclusionRule(WordCharacter)

\* A search for a token one letter longer than a token of the messages:
\* the messages with the shorter token are found, the others are not.
C15_Witness ==
  /\ search.searched
  /\ search.filters.query = LongerToken
  /\ search.filters.senderType = "all" /\ search.filters.messageLength = NoRange
  /\ Len(search.sessions) = 2
  /\ Len(search.results) = 6

\* The messages of the sessions searched other than the session's own.
MessagesElsewhere(session) ==
  UNION { Range(s.messages) : s \in { x \in Range(search.sessions) : x.id # session.id } }

\* C16: each result for the message at index i of its session carries the
\* up to two messages before i as its context before and the up to two after
\* i as its context after, in the order of the session, without the matched
\* message and without a message of another session.
C16_ContextWindow ==
  \A r \in Range(search.results) :
    LET all == r.session.messages
        n == Len(all)
    IN  /\ r.session \in Range(search.sessions)
        /\ \E i \in 1..n :
             LET first == IF i - 2 < 1 THEN 1 ELSE i - 2
                 final == IF i + 2 > n THEN n ELSE i + 2
             IN  /\ all[i] = r.message
                 /\ r.context.before = [k \in 1..(i - first) |-> all[first + k - 1]]
                 /\ r.context.after = [k \in 1..(final - i) |-> all[i + k]]
        /\ r.message \notin Range(r.context.before) \cup Range(r.context.after)
        /\ (Range(r.context.before) \cup Range(r.context.after))
             \cap MessagesElsewhere(r.session) = {}

\* Two sessions are searched and a result is for the third of five messages,
\* with two messages before and two after, and another for a first message,
\* with nothing before.
C16_Witness ==
  /\ Len(search.sessions) = 2
  /\ \E r \in Range(search.results) :
       /\ r.message.id = "m5"
       /\ Len(r.context.before) = 2 /\ r.context.after = << >>
  /\ \E r \in Range(search.results) :
       /\ r.message.id = "m2"
       /\ Len(r.context.before) = 1 /\ Len(r.context.after) = 2
  /\ \E r \in Range(search.results) :
       /\ r.message.id = "m6"
       /\ r.context.before = << >> /\ Len(r.context.after) = 1

\* Two results of a search by relevance whose messages have the same
\* matched content, sender and age, the first under 50 characters and the
\* second of 100 or more.
ShortAndLong(a, b) ==
  LET searchQuery == search.filters.query
      queryTokens == tokenizeText(searchQuery)
  IN  /\ search.filters.sortBy = "relevance"
      /\ matchedTerms(a.message, searchQuery) = matchedTerms(b.message, searchQuery)
      /\ BaseScore(a.message, queryTokens, matchedTerms(a.message, searchQuery))
           = BaseScore(b.message, queryTokens, matchedTerms(b.message, searchQuery))
      /\ a.message.isAI = b.message.isAI
      /\ a.message.timestamp = b.message.timestamp
      /\ Len(a.message.message) < 50
      /\ Len(b.message.message) >= 100

\* C17 as stated: of two matching messages with the same matched content,
\* sender and age, one under 50 characters and one of 100 or more, the
\* shorter has the strictly higher score and is ranked strictly before.
C17_RelevanceOrdering ==
  \A p, q \in 1..Len(search.results) :
    ShortAndLong(search.results[p], search.results[q]) =>
      /\ search.results[p].relevanceScore > search.results[q].relevanceScore
      /\ p < q

\* C17 as amended: the same, for messages whose relevance score is not zero.
C17_RelevanceOrderingNonZero ==
  \A p, q \in 1..Len(search.results) :
    (/\ ShortAndLong(search.results[p], search.results[q])
     /\ search.results[p].relevanceScore # 0
     /\ search.results[q].relevanceScore # 0) =>
      /\ search.results[p].relevanceScore > search.results[q].relevanceScore
      /\ p < q

\* A search by relevance ranked a short message with a positive score
\* before a long one of the same matched content that stands before it in
\* the sessions.
C17_Witness ==
  /\ search.sessions = << SecondSession, FirstSession >>
  /\ \E p, q \in 1..Len(search.results) :
       /\ ShortAndLong(search.results[p], search.results[q])
       /\ search.results[q].relevanceScore > 0
       /\ search.results[p].message.id = "m1"
       /\ search.results[q].message.id = "m4"
       /\ p < q

\* C18: the JSON text of an exported session, parsed, has a messages list
\* with the id, the text and the timestamp, as its ISO-8601 string, of every
\* message of the session, in their order.
C18_RoundTripExport ==
  history.format = "json" =>
    LET parsed == ParseJson(history.exported)
        original == history.session.messages
    IN  /\ HasProperty(parsed, "messages")
        /\ LET messages == Property(parsed, "messages")
           IN  /\ Len(messages) = Len(original)
               /\ \A i \in 1..Len(original) :
                    /\ Property(messages[i], "id") = original[i].id
                    /\ Property(messages[i], "message") = original[i].message
                    /\ Property(messages[i], "timestamp")
                         = toISOString(original[i].timestamp)

\* formatSessionForExport has exported a session of two messages of
\* different days, one with a quotation mark and a backslash, one with a
\* line break.
C18_Witness ==
  /\ history.format = "json"
  /\ HasProperty(ParseJson(history.exported), "exportedAt")
  /\ Len(history.session.messages) = 2
  /\ history.session.messages[1].message = << "a", "\"", "\\" >>
  /\ history.session.messages[2].message = << "a", "\n", "b" >>
  /\ history.session.messages[1].timestamp < history.session.messages[2].timestamp

\* The enabled layers that hold an entry for k, in priority order; with
\* live, those whose entry is not expired.
Holders(k, live) ==
  SelectSeq(EnabledInPriority,
            LAMBDA name : /\ LayerGet(store, name, k) # NoEntry
                          /\ live => ~isExpired(LayerGet(store, name, k)))

\* The results of the query just made hold at most one entry per key, none
\* expired, and each is the entry of the first of the holders of its key.
QueryKeeps(live) ==
  last.op = "query" =>
    /\ \A i, j \in 1..Len(last.result) :
         last.result[i].key = last.result[j].key => i = j
    /\ \A i \in 1..Len(last.result) :
         LET r == last.result[i]
         IN  /\ ~isExpired(r.entry)
             /\ Holders(r.key, live) # << >>
             /\ r.entry = LayerGet(store, Holders(r.key, live)[1], r.key)

Propagated(source, target) ==
  \A k \in Keys :
    LET entry == LayerGet(store, source, k)
    IN  (entry # NoEntry /\ ~isExpired(entry)) =>
          LayerSet(store, target, k, entry, "ok").store = store

\* C22: after a synchronize that returned, whatever the order in which the
\* configuration declares the layers, each enabled layer has propagated its
\* live entries to the enabled layer next after it in ascending priority.
C22_SyncInPriorityOrder ==
  (last.op = "sync" /\ ~last.threw) =>
    \A i \in 1..(Len(EnabledInPriority) - 1) :
      Propagated(EnabledInPriority[i], EnabledInPriority[i + 1])

\* The operations of a transaction from the last to the first.
LastToFirst(n) == [i \in 1..n |-> n + 1 - i]

\* C23: a rollback of a transaction of the registry reverses its operations
\* from the last to the first; every key of a recorded set whose reversal
\* did not fail is in no layer afterwards, a key no recorded set names is
\* left as it was, whichever reversals failed, and the registry no longer
\* holds the transaction.
C23_RollbackReversesAll ==
  [][ \A id \in DOMAIN transactions :
        (last'.op = "rollbackTransaction" /\ last'.tx = id) =>
          LET ops == transactions[id]
              sets(among) == { ops[i].key : i \in { j \in among : ops[j].type = "set" } }
          IN  /\ last'.result.order = LastToFirst(Len(ops))
              /\ id \notin DOMAIN transactions'
              /\ \A k \in sets((1..Len(ops)) \ last'.result.rejected) :
                   \A n \in Range(EnabledInInsertion) : store'[n][k] = NoEntry
              /\ \A k \in Keys \ sets(1..Len(ops)) :
                   \A n \in Range(EnabledInInsertion) : store'[n][k] = store[n][k]
    ]_vars

\* A rollback whose reversal of the last operation failed, the memory layer
\* having lost the key of that set and the storage medium having kept it, has
\* reversed the set recorded before it.
C23_Witness ==
  /\ last.op = "rollbackTransaction"
  /\ last.result.order = << 2, 1 >>
  /\ last.result.rejected = {2}
  /\ store[MemoryLayer]["k2"] = NoEntry /\ store[StorageLayer]["k2"] # NoEntry
  /\ store[StorageLayer]["k1"] = NoEntry
  /\ last.changed

\* C24: while warmup runs, no item of a batch has called its loader unless
\* every item of the batches before it is through; and warmup resolves, every
\* item through, the key of each item that was set being live in the cache,
\* whichever loaders and sets failed.
C24_WarmupSurvivesFailures ==
  /\ Warming =>
       \A i, j \in 1..Len(call.ops) :
         (BatchOf(j) < BatchOf(i) /\ call.ops[i].status # "pending")
           => Settled(call.ops[j].status)
  /\ last.op = "warmup" =>
       /\ ~last.threw
       /\ Len(last.result) = Len(WarmKeys)
       /\ \A i \in 1..Len(last.result) :
            /\ Settled(last.result[i].status)
            /\ last.result[i].status = "set" =>
                 get(store, last.result[i].key, "ok").result = "a"

\* A warmup resolved with a failure in its first batch and the item of its
\* last batch set.
C24_Witness ==
  /\ last.op = "warmup"
  /\ \E i \in 1..Len(last.result) :
       BatchOf(i) = 1 /\ last.result[i].status = "failed"
  /\ last.result[Len(last.result)].status = "set"
  /\ BatchOf(Len(last.result)) > 1

\* C25: an adapter set whose first write the medium takes makes one write and
\* no cleanup; one whose first write is rejected runs cleanup() once and
\* writes once more, two writes in all; the set resolves with the entry
\* stored if a write was taken, and throws without it if both were rejected.
C25_RetryOnce ==
  [][ last'.op = "adapter.set" =>
        LET r == last'.result
            entry == NewEntry(last'.value, NoTtl)
            stored == [entry EXCEPT !.value = JSONparse(JSONstringify(@))]
            others(st) == [k \in Keys \ {last'.key} |-> st[StorageLayer][k]]
        IN  /\ r.attempts = IF r.accepts[1] THEN 1 ELSE 2
            /\ r.cleanups = IF r.accepts[1] THEN 0 ELSE 1
            /\ others(store') = IF r.accepts[1] THEN others(store)
                                ELSE others(LocalStorageCacheLayer_cleanup(store))
            /\ last'.threw <=> (~r.accepts[1] /\ ~r.accepts[2])
            /\ ~last'.threw => LocalStorageCacheLayer_get(store', last'.key) = stored
            /\ last'.threw =>
                 store'[StorageLayer][last'.key]
                   = LocalStorageCacheLayer_cleanup(store)[StorageLayer][last'.key]
            /\ store' = LocalStorageCacheLayer_set(store, last'.key, entry,
                                                   QuotaOf(r.accepts)).store
    ]_vars

\* An adapter set was rejected once and stored its entry at the second
\* write; its cleanup purged the expired entry of the other key, which a get
\* had promoted to the memory layer before.
C25_Witness ==
  /\ last.op = "adapter.set" /\ ~last.threw
  /\ last.result.attempts = 2 /\ last.result.cleanups = 1
  /\ last.key = "k1"
  /\ store[StorageLayer]["k1"] # NoEntry
  /\ store[StorageLayer]["k2"] = NoEntry
  /\ store[MemoryLayer]["k2"] # NoEntry

\* The operations that decide what a key holds once all are replayed: the
\* sets that no later set or delete of the same key follows.
FinalSets(ops) ==
  { i \in 1..Len(ops) :
      /\ ops[i].type = "set"
      /\ \A j \in (i + 1)..Len(ops) :
           ~(ops[j].key = ops[i].key /\ ops[j].type \in {"set", "delete"}) }

\* C26: when commitTransaction resolves, whether or not the timer of the
\* transaction fired while it was suspended, every layer the write policy
\* writes holds, for each key of a recorded set that is final for its key,
\* an entry with the value of that set; this while no entry can have
\* outlived its time to live.
C26_CommitAllOrNothing ==
  [][ (last'.op = "commit" /\ ~last'.threw /\ now' <= DefaultTTL) =>
        \A i \in FinalSets(call.ops) :
          \A n \in Range(PolicyTargets) :
            LET e == LayerGet(store', n, call.ops[i].key)
            IN  /\ e # NoEntry
                /\ e.value = JSONparse(JSONstringify(call.ops[i].value))
    ]_vars

\* C27: a rollback, by the caller or by the timer, of a transaction of the
\* registry none of whose operations was replayed leaves the entry of every
\* key its recorded sets name as it was in every layer.
C27_RollbackOnlyUndoesApplied ==
  [][ \A id \in DOMAIN transactions :
        (last'.op \in {"rollback", "timer"} /\ last'.tx = id /\ CallerIdle) =>
          \A i \in 1..Len(transactions[id]) :
            transactions[id][i].type = "set" =>
              \A n \in SupportedTypes :
                store'[n][transactions[id][i].key] = store[n][transactions[id][i].key]
    ]_vars

\* The layers of the configuration that initializeLayers registers.
Registrable ==
  { config.layers[i].name : i \in { j \in 1..Len(config.layers) :
      config.layers[j].enabled /\ config.layers[j].name \in SupportedTypes } }

\* A set that returned under write-through left its entry in the memory layer.
SetReachedMemory ==
  (last.op = "set" /\ ~last.threw /\ config.writePolicy = "write-through"
     /\ MemoryLayer \in Registrable)
    => store[MemoryLayer][last.key] # NoEntry

\* C28: a get, set or delete has found every layer that initializeLayers
\* registers already registered, and so a set that returned under
\* write-through has left its entry in the memory layer, as it does once the
\* initialization is through.
C28_InitializedBeforeFirstUse ==
  /\ last.op \in {"get", "set", "delete"} => Registrable \subseteq Range(layers)
  /\ SetReachedMemory

\* The ids of the messages of the session of that id in a list of sessions.
MessageIds(sessions, id) ==
  UNION { { s.messages[i].id : i \in 1..Len(s.messages) } :
          s \in { x \in Range(sessions) : x.id = id } }

\* C29: every message whose saveMessage resolved is in the message list of
\* the current session in the state of the hook, in its sessions and in its
\* currentSession, and in the stored item.
C29_NoLostMessage ==
  \A id \in chat.resolved :
    /\ id \in MessageIds(<< chat.state.currentSession >>, CurrentSession.id)
    /\ id \in MessageIds(chat.state.sessions, CurrentSession.id)
    /\ id \in MessageIds(chat.stored, CurrentSession.id)

\* C30: whatever the number of callers of makeRequest, no window of 60
\* seconds holds more calls of fetch than rateLimitPerMinute, and no two
\* calls of fetch are less than 100 ms apart.
C30_RateLimit ==
  LET at == limiter.fetches
  IN  /\ \A i \in 1..Len(at) :
           Cardinality({ j \in 1..Len(at) :
                           at[i] <= at[j] /\ at[j] < at[i] + WindowMs })
             <= limiter.rateLimitPerMinute
      /\ \A i, j \in 1..Len(at) : i < j => at[j] - at[i] >= MinGapMs

====
